---- MODULE Spec2Model ----
(***************************************************************************)
(* Model of the strategy-driven extraction configuration and graph         *)
(* normalisation pipeline of ExtractGraph:                                 *)
(*   src/src/utils/text_format.py   TEXT_FORMAT (graph normaliser)         *)
(*   src/src/config/strategy.py     ExtractionStrategy (strategy store)    *)
(*   src/src/core/extractor.py      ConfigurableExtractor (orchestrator)   *)
(*                                                                         *)
(* Python values are represented as follows.                               *)
(*   str    a sequence of one-character strings, "ab" is <<"a","b">>       *)
(*   None   the token <<"<None>">>                                         *)
(*   int    a token such as <<"<5>">>                                      *)
(*   dict   a function from its keys (TLA+ strings) to values              *)
(* A key that a dict does not hold is simply not in the DOMAIN.  Where a   *)
(* field may hold either a dict or something else (attributes,             *)
(* char_interval) the field holds a kind token and a companion field       *)
(* holds the items of the dict.                                            *)
(* Strategy names, entity classes of a strategy and granularity levels are *)
(* never taken apart by the code; they are TLA+ strings.                   *)
(***************************************************************************)
EXTENDS Integers, Sequences, FiniteSets, TLC

VARIABLES
    uid_in,             \* make_uid harness: the class and the two texts given
    uid_out,            \* make_uid harness: the two ids returned
    extraction_result,  \* format_for_neo4j: the argument of the call
    neo4j_data,         \* format_for_neo4j: the value returned (or the error raised)
    first_call,         \* repeated normalisation: an earlier call, argument and result
    last_call,          \* repeated normalisation: the latest call, argument and result
    n_calls,            \* number of format_for_neo4j calls made so far by this process
    granularity_in,     \* _adjust_extraction_parameters: strategy.granularity
    params_out,         \* _adjust_extraction_parameters: the params returned
    strategies_cache,   \* ExtractionStrategy._strategies_cache
    current_strategy,   \* ConfigurableExtractor._current_strategy
    last_op,            \* the latest call on the store / orchestrator and its outcome
    n_ops,              \* number of store / orchestrator calls made so far
    callers,            \* concurrent resolution: each caller's arguments and position
    prompt_in,          \* generate_prompt: the strategy and the state of the templates
    prompt_out,         \* generate_prompt: the value returned (or the error raised)
    schema_in,          \* get_*_schema: the schema store and the arguments
    schema_out,         \* get_*_schema: the value returned (or the error raised)
    cypher_in,          \* CypherGenerator: the graph data given
    cypher_out,         \* CypherGenerator: the statement texts returned
    visual_in,          \* VisualNodes: the graph data given
    net                 \* VisualNodes: the pyvis network being built

\* the variables of the harnesses on the store under concurrency, on the
\* prompt generator, on the schema lookup, on the statement generators and
\* on the preview network
harness_vars ==
    <<callers, prompt_in, prompt_out, schema_in, schema_out, cypher_in, cypher_out,
      visual_in, net>>

vars == <<uid_in, uid_out, extraction_result, neo4j_data, first_call, last_call,
          n_calls, granularity_in, params_out, strategies_cache,
          current_strategy, last_op, n_ops, harness_vars>>

-----------------------------------------------------------------------------
(* Bounds of the model *)

MaxTextLen == 3     \* longest text given to make_uid in the make_uid harness
MaxRecs == 2        \* longest extraction list given to format_for_neo4j
MaxRepeatRecs == 1  \* longest extraction list in the repeated-normalisation harness
MaxCalls == 3       \* format_for_neo4j calls made in the repeated-normalisation harness
MaxOps == 2         \* store / orchestrator calls made by one process

-----------------------------------------------------------------------------
(* Python values *)

None == <<"<None>">>
NotCalled == <<"<not called>">>
PyDict == <<"<dict>">>
PyList == <<"<list>">>
EmptyDict == [k \in {} |-> None]

\* Python truth value of a str / None / int value
Truthy(v) == v \notin {None, <<>>, <<"<0>">>}

\* d.get(k) and d.get(k, default)
dict_get(d, k) == IF k \in DOMAIN d THEN d[k] ELSE None
dict_get_default(d, k, default) == IF k \in DOMAIN d THEN d[k] ELSE default

\* a.update(b)
dict_update(a, b) ==
    [k \in (DOMAIN a) \cup (DOMAIN b) |-> IF k \in DOMAIN b THEN b[k] ELSE a[k]]

\* {k: v for k, v in d.items() if v is not None}
drop_none(d) == [k \in {j \in DOMAIN d : d[j] # None} |-> d[k]]

-----------------------------------------------------------------------------
(* str methods *)

Whitespace == {" ", "\t", "\n"}

LowerAlpha == <<"a","b","c","d","e","f","g","h","i","j","k","l","m",
                "n","o","p","q","r","s","t","u","v","w","x","y","z">>
UpperAlpha == <<"A","B","C","D","E","F","G","H","I","J","K","L","M",
                "N","O","P","Q","R","S","T","U","V","W","X","Y","Z">>

IndexIn(alpha, c) == CHOOSE i \in 1..Len(alpha) : alpha[i] = c
IsIn(alpha, c) == \E i \in 1..Len(alpha) : alpha[i] = c

lower_char(c) == IF IsIn(UpperAlpha, c) THEN LowerAlpha[IndexIn(UpperAlpha, c)] ELSE c
upper_char(c) == IF IsIn(LowerAlpha, c) THEN UpperAlpha[IndexIn(LowerAlpha, c)] ELSE c

str_lower(s) == [i \in 1..Len(s) |-> lower_char(s[i])]
\* str.upper left out: the string as it is
str_keeping_case(s) == s

str_upper(s) == [i \in 1..Len(s) |-> upper_char(s[i])]

RECURSIVE str_lstrip(_)
str_lstrip(s) ==
    IF s # <<>> /\ Head(s) \in Whitespace THEN str_lstrip(Tail(s)) ELSE s

RECURSIVE str_rstrip(_)
str_rstrip(s) ==
    IF s # <<>> /\ s[Len(s)] \in Whitespace
    THEN str_rstrip(SubSeq(s, 1, Len(s) - 1))
    ELSE s

str_strip(s) == str_rstrip(str_lstrip(s))

\* s.split(): the maximal runs of non-whitespace characters, in order
RECURSIVE str_split(_)
str_split(s) ==
    LET t == str_lstrip(s)
    IN  IF t = <<>> THEN <<>>
        ELSE LET stops == {i \in 1..Len(t) : t[i] \in Whitespace}
                 n == IF stops = {} THEN Len(t) + 1
                      ELSE CHOOSE i \in stops : \A j \in stops : i <= j
             IN  <<SubSeq(t, 1, n - 1)>> \o str_split(SubSeq(t, n, Len(t)))

\* sep.join(words)
RECURSIVE str_join(_, _)
str_join(sep, words) ==
    IF words = <<>> THEN <<>>
    ELSE IF Len(words) = 1 THEN words[1]
    ELSE words[1] \o sep \o str_join(sep, Tail(words))

-----------------------------------------------------------------------------
(* TEXT_FORMAT: basic tools *)

\* norm_text without the call of lower()
norm_text_keeping_case(s) == str_join(<<" ">>, str_split(str_strip(s)))

norm_text(s) == str_join(<<" ">>, str_split(str_lower(str_strip(s))))

\* The bytes of a str: the ASCII code of each character.
char_code(c) ==
    IF IsIn(LowerAlpha, c) THEN 96 + IndexIn(LowerAlpha, c)
    ELSE IF IsIn(UpperAlpha, c) THEN 64 + IndexIn(UpperAlpha, c)
    ELSE IF c = " " THEN 32
    ELSE IF c = "\t" THEN 9
    ELSE IF c = "\n" THEN 10
    ELSE IF c = ":" THEN 58
    ELSE IF c = "_" THEN 95
    ELSE 63

HexDigits == <<"0","1","2","3","4","5","6","7","8","9","a","b","c","d","e","f">>

\* hashlib.md5(bytes).hexdigest()[:16].  MD5 is stood in for by a
\* deterministic digest of the same bytes (a polynomial hash) and the
\* 16 hexadecimal characters kept by 4: what the model keeps of the digest
\* is that it is a function of the bytes alone, that it is not injective,
\* and that the result is a fixed-length lowercase hexadecimal string.
RECURSIVE digest_fold(_, _)
digest_fold(h, s) ==
    IF s = <<>> THEN h
    ELSE digest_fold((h * 31 + char_code(Head(s))) % 65536, Tail(s))

md5_hexdigest_prefix(s) ==
    LET h == digest_fold(7, s)
    IN  << HexDigits[((h \div 4096) % 16) + 1], HexDigits[((h \div 256) % 16) + 1],
           HexDigits[((h \div 16) % 16) + 1], HexDigits[(h % 16) + 1] >>

\* make_uid with the number of the call mixed into the digest, as an id
\* drawn from a per-process counter or salt would be
make_uid_per_call(cls, text) ==
    cls \o <<"_">>
        \o md5_hexdigest_prefix(cls \o <<":">> \o norm_text(text)
                                    \o [i \in 1..n_calls |-> "_"])

make_uid(cls, text) ==
    cls \o <<"_">> \o md5_hexdigest_prefix(cls \o <<":">> \o norm_text(text))

class_to_label(cls) == str_upper(str_strip(cls))

-----------------------------------------------------------------------------
(* TEXT_FORMAT: the graph normaliser *)

\* An extraction is a dict with the keys extraction_class, extraction_text,
\* attributes, char_interval, extraction_index, alignment_status, any of
\* which may be missing.  attributes and char_interval hold PyDict, PyList
\* or None; the items of a dict are under attributes_items and
\* char_interval_items, which every extraction of the model carries.

relationship == <<"r","e","l","a","t","i","o","n","s","h","i","p">>
character == <<"c","h","a","r","a","c","t","e","r">>
emotion == <<"e","m","o","t","i","o","n">>
RELATED_TO == <<"R","E","L","A","T","E","D","_","T","O">>
unknown_doc == <<"u","n","k","n","o","w","n","_","d","o","c">>

\* the attributes of a record left unread
entity_attributes_ignored(extraction) == EmptyDict

\* extraction.get('attributes') or {}, followed by the isinstance check of
\* _create_entity_node: anything that is not a non-empty dict becomes {}
entity_attributes(extraction) ==
    IF dict_get(extraction, "attributes") = PyDict
    THEN extraction.attributes_items
    ELSE EmptyDict

\* extraction.get('char_interval') or {}
interval_of(extraction) ==
    IF dict_get(extraction, "char_interval") = PyDict
    THEN extraction.char_interval_items
    ELSE EmptyDict

\* char_interval.get(key) if char_interval else None
interval_pos(extraction, key) ==
    LET char_interval == interval_of(extraction)
    IN  IF DOMAIN char_interval # {} THEN dict_get(char_interval, key) ELSE None

\* _create_entity_node raises AttributeError when extraction_text is None:
\* make_uid calls norm_text, which calls None.strip()
entity_node_raises(extraction) ==
    dict_get_default(extraction, "extraction_text", <<>>) = None

_create_entity_node(extraction, document_id) ==
    LET extraction_class == dict_get_default(extraction, "extraction_class", <<>>)
        extraction_text == dict_get_default(extraction, "extraction_text", <<>>)
        attributes == entity_attributes(extraction)
        node == [id |-> make_uid(extraction_class, extraction_text),
                 label |-> class_to_label(extraction_class),
                 text |-> extraction_text,
                 normalized_text |-> norm_text(extraction_text),
                 document_id |-> document_id,
                 start_pos |-> interval_pos(extraction, "start_pos"),
                 end_pos |-> interval_pos(extraction, "end_pos"),
                 extraction_index |-> dict_get(extraction, "extraction_index"),
                 alignment_status |-> dict_get(extraction, "alignment_status")]
        updated ==
            IF extraction_class = character
            THEN dict_update(node, [role |-> dict_get(attributes, "role"),
                                    alias |-> dict_get(attributes, "alias"),
                                    title |-> dict_get(attributes, "title")])
            ELSE IF extraction_class = emotion
            THEN dict_update(node, [feeling |-> dict_get(attributes, "feeling"),
                                    category |-> dict_get(attributes, "category")])
            ELSE dict_update(node, drop_none(attributes))
    IN  drop_none(updated)

\* the class of a record as _extract_entity_nodes and _extract_relationships read it
class_of(extraction) == dict_get_default(extraction, "extraction_class", <<>>)

is_entity_record(extraction) ==
    Truthy(class_of(extraction)) /\ class_of(extraction) # relationship

RECURSIVE _extract_entity_nodes(_, _)
_extract_entity_nodes(extractions, document_id) ==
    IF extractions = <<>> THEN <<>>
    ELSE (IF is_entity_record(Head(extractions))
          THEN <<_create_entity_node(Head(extractions), document_id)>>
          ELSE <<>>)
         \o _extract_entity_nodes(Tail(extractions), document_id)

\* attributes of a relationship record; a truthy non-dict makes
\* _create_relationship return {} at once, which reads as no attributes
relationship_attributes(extraction) ==
    IF dict_get(extraction, "attributes") = PyDict
    THEN extraction.attributes_items
    ELSE EmptyDict

\* the completeness check without tail_class
relationship_incomplete_but_tail_class(extraction) ==
    LET attributes == relationship_attributes(extraction)
    IN  \E k \in {"head_text", "head_class", "tail_text"} :
            ~Truthy(dict_get(attributes, k))

\* the completeness check with relation_type as a fifth required key
relationship_incomplete_five_keys(extraction) ==
    LET attributes == relationship_attributes(extraction)
    IN  \E k \in {"head_text", "head_class", "tail_text", "tail_class",
                  "relation_type"} :
            ~Truthy(dict_get(attributes, k))

\* not all([head_text, head_class, tail_text, tail_class])
relationship_incomplete(extraction) ==
    LET attributes == relationship_attributes(extraction)
    IN  \E k \in {"head_text", "head_class", "tail_text", "tail_class"} :
            ~Truthy(dict_get(attributes, k))

\* relation_type.upper() raises AttributeError when relation_type is None
relationship_raises(extraction) ==
    /\ ~relationship_incomplete(extraction)
    /\ dict_get_default(relationship_attributes(extraction),
                        "relation_type", RELATED_TO) = None

\* the edge of a record, {} (EmptyDict) when the record is dropped
_create_relationship(extraction, document_id) ==
    LET attributes == relationship_attributes(extraction)
        head_text == dict_get(attributes, "head_text")
        head_class == dict_get(attributes, "head_class")
        tail_text == dict_get(attributes, "tail_text")
        tail_class == dict_get(attributes, "tail_class")
        relation_type == dict_get_default(attributes, "relation_type", RELATED_TO)
    IN  IF relationship_incomplete(extraction) THEN EmptyDict
        ELSE drop_none(
               [source_id |-> make_uid(head_class, head_text),
                target_id |-> make_uid(tail_class, tail_text),
                type |-> str_upper(relation_type),
                trigger_text |-> dict_get_default(extraction, "extraction_text", <<>>),
                document_id |-> document_id,
                start_pos |-> interval_pos(extraction, "start_pos"),
                end_pos |-> interval_pos(extraction, "end_pos"),
                extraction_index |-> dict_get(extraction, "extraction_index"),
                head_text |-> head_text,
                head_class |-> head_class,
                tail_text |-> tail_text,
                tail_class |-> tail_class])

\* _extract_relationships keeping only the edges whose two ends are ids of
\* emitted nodes
_extract_linked_relationships(extractions, document_id) ==
    LET nodes == _extract_entity_nodes(extractions, document_id)
        ids == {nodes[i].id : i \in 1..Len(nodes)}
        edges == [i \in 1..Len(extractions) |->
                     _create_relationship(extractions[i], document_id)]
        kept == SelectSeq([i \in 1..Len(extractions) |-> i],
                          LAMBDA i : /\ class_of(extractions[i]) = relationship
                                     /\ DOMAIN edges[i] # {}
                                     /\ edges[i].source_id \in ids
                                     /\ edges[i].target_id \in ids)
    IN  [j \in 1..Len(kept) |-> edges[kept[j]]]

RECURSIVE _extract_relationships(_, _)
_extract_relationships(extractions, document_id) ==
    IF extractions = <<>> THEN <<>>
    ELSE (IF class_of(Head(extractions)) = relationship
             /\ DOMAIN _create_relationship(Head(extractions), document_id) # {}
          THEN <<_create_relationship(Head(extractions), document_id)>>
          ELSE <<>>)
         \o _extract_relationships(Tail(extractions), document_id)

\* whether some record of the list makes the call raise
format_raises(extractions) ==
    \E i \in 1..Len(extractions) :
        \/ is_entity_record(extractions[i]) /\ entity_node_raises(extractions[i])
        \/ class_of(extractions[i]) = relationship /\ relationship_raises(extractions[i])

\* The value of a call is [error, nodes, relationships]: error is "none" and
\* the two lists are the returned dict, or error names the exception raised.
format_for_neo4j(result) ==
    LET extractions == dict_get_default(result, "extractions", <<>>)
        document_id == dict_get_default(result, "document_id", unknown_doc)
    IN  IF format_raises(extractions)
        THEN [error |-> "AttributeError", nodes |-> <<>>, relationships |-> <<>>]
        ELSE [error |-> "none",
              nodes |-> _extract_entity_nodes(extractions, document_id),
              relationships |-> _extract_relationships(extractions, document_id)]

-----------------------------------------------------------------------------
(* Inputs of the normaliser *)

T_Ro == <<"R","o">>
T_ro_padded == <<" ","r","o"," ">>
T_Ju == <<"J","u">>
T_joy == <<"j","o","y">>
T_place == <<"p","l","a","c","e">>
T_lead == <<"l","e","a","d">>
T_loves == <<"l","o","v","e","s">>
T_d1 == <<"d","1">>

\* d without the keys in ks
without(d, ks) == [k \in (DOMAIN d) \ ks |-> d[k]]

\* a record as the engine returns it with every field filled in; its
\* attributes carry keys of every class and one None value
FullEntity(cls, text) ==
    [extraction_class |-> cls, extraction_text |-> text,
     attributes |-> PyDict,
     attributes_items |-> [role |-> T_lead, feeling |-> T_joy,
                           category |-> None, kind |-> T_place],
     char_interval |-> PyDict,
     char_interval_items |-> [start_pos |-> <<"<0>">>, end_pos |-> <<"<5>">>],
     extraction_index |-> <<"<1>">>,
     alignment_status |-> <<"m","a","t","c","h">>]

\* the same record with attributes, char_interval, extraction_index and
\* alignment_status set to None
NullEntity(cls, text) ==
    [extraction_class |-> cls, extraction_text |-> text,
     attributes |-> None, attributes_items |-> EmptyDict,
     char_interval |-> None, char_interval_items |-> EmptyDict,
     extraction_index |-> None, alignment_status |-> None]

\* the same record without those keys
BareEntity(cls, text) ==
    without(NullEntity(cls, text),
            {"attributes", "char_interval", "extraction_index", "alignment_status"})

EntityClasses == {character, emotion, T_place}

EntityRecords ==
    {FullEntity(c, t) : c \in EntityClasses, t \in {T_Ro, T_ro_padded}}
    \cup {NullEntity(c, t) : c \in EntityClasses, t \in {T_Ro, T_ro_padded}}
    \cup {BareEntity(c, T_Ju) : c \in EntityClasses}
    \cup {NullEntity(<<>>, T_Ro),                              \* empty class
          without(NullEntity(<<>>, T_Ro), {"extraction_class"}), \* no class
          NullEntity(character, None),                         \* text is None
          [FullEntity(T_place, T_Ju) EXCEPT !.attributes = PyList],
          \* an attribute named like a core field of the node
          [NullEntity(T_place, T_Ju) EXCEPT
              !.attributes = PyDict,
              !.attributes_items = [start_pos |-> <<"<7>">>, kind |-> T_place]],
          [NullEntity(T_place, T_Ju) EXCEPT
              !.attributes = PyDict,
              !.attributes_items = [id |-> T_d1]],
          \* the same on a character, beside a role and a null title
          [NullEntity(character, T_Ju) EXCEPT
              !.attributes = PyDict,
              !.attributes_items = [id |-> T_d1, role |-> T_lead, title |-> None]]}

CompleteAttributes ==
    [head_text |-> T_Ro, head_class |-> character,
     tail_text |-> T_Ju, tail_class |-> character, relation_type |-> T_loves]

Relationship(items, interval) ==
    [extraction_class |-> relationship, extraction_text |-> T_loves,
     attributes |-> PyDict, attributes_items |-> items,
     char_interval |-> interval,
     char_interval_items |->
        IF interval = PyDict
        THEN [start_pos |-> <<"<0>">>, end_pos |-> <<"<5>">>] ELSE EmptyDict,
     extraction_index |-> <<"<2>">>]

LinkKeys == {"head_text", "head_class", "tail_text", "tail_class"}

CompleteRelationships ==
    {Relationship(a, ci) :
        a \in {CompleteAttributes,
               without(CompleteAttributes, {"relation_type"}),
               [CompleteAttributes EXCEPT !.relation_type = None],
               [CompleteAttributes EXCEPT !.head_text = T_ro_padded,
                                          !.tail_class = emotion,
                                          !.tail_text = T_joy]},
        ci \in {PyDict, None}}
    \* a relationship whose tail is of a class other than character/emotion
    \cup {Relationship([CompleteAttributes EXCEPT !.tail_class = T_place,
                                                  !.tail_text = T_Ju], None)}
    \* a relationship whose relation_type is the empty string
    \cup {Relationship([CompleteAttributes EXCEPT !.relation_type = <<>>], None)}

\* relationship records lacking one of the four link keys
LackingRelationships ==
    {Relationship(without(CompleteAttributes, {k}), PyDict) : k \in LinkKeys}
    \cup {Relationship(without([CompleteAttributes EXCEPT !.relation_type = None],
                               {"tail_class"}), None)}

IncompleteRelationships ==
    LackingRelationships
    \cup {Relationship([CompleteAttributes EXCEPT !.head_text = None], PyDict),
          Relationship([CompleteAttributes EXCEPT !.tail_class = <<>>], PyDict),
          [Relationship(CompleteAttributes, PyDict) EXCEPT !.attributes = None],
          [Relationship(CompleteAttributes, PyDict) EXCEPT !.attributes = PyList]}

Records == EntityRecords \cup CompleteRelationships \cup IncompleteRelationships

SeqsUpTo(S, n) == UNION {[1..k -> S] : k \in 0..n}

\* the dicts given to format_for_neo4j: with and without a document_id
Results(S, n) ==
    {[extractions |-> x, document_id |-> T_d1] : x \in SeqsUpTo(S, n)}
    \cup {[extractions |-> x] : x \in SeqsUpTo(S, n)}

-----------------------------------------------------------------------------
(* Harness: one call of format_for_neo4j on an engine result *)

UidIdle == uid_in = NotCalled /\ uid_out = NotCalled
FormatIdle == extraction_result = NotCalled /\ neo4j_data = NotCalled
RepeatIdle == first_call = NotCalled /\ last_call = NotCalled /\ n_calls = 0
ParamsIdle == granularity_in = NotCalled /\ params_out = NotCalled
StoreIdle ==
    /\ strategies_cache = EmptyDict /\ current_strategy = NotCalled
    /\ last_op = NotCalled /\ n_ops = 0
ConcurrentIdle == callers = NotCalled
PromptIdle == prompt_in = NotCalled /\ prompt_out = NotCalled
SchemaIdle == schema_in = NotCalled /\ schema_out = NotCalled
CypherIdle == cypher_in = NotCalled /\ cypher_out = NotCalled
VisualIdle == visual_in = NotCalled /\ net = NotCalled
HarnessIdle == ConcurrentIdle /\ PromptIdle /\ SchemaIdle /\ CypherIdle /\ VisualIdle

\* neo4j_data before the call
NoGraph == [error |-> "not called", nodes |-> <<>>, relationships |-> <<>>]

InitFormat ==
    /\ extraction_result \in Results(Records, MaxRecs)
    /\ neo4j_data = NoGraph
    /\ UidIdle /\ RepeatIdle /\ ParamsIdle /\ StoreIdle /\ HarnessIdle

Format ==
    /\ neo4j_data.error = "not called"
    /\ neo4j_data' = format_for_neo4j(extraction_result)
    /\ UNCHANGED <<uid_in, uid_out, extraction_result, first_call, last_call,
                   n_calls, granularity_in, params_out, strategies_cache,
                   current_strategy, last_op, n_ops, harness_vars>>

NextFormat == Format

SpecFormat == InitFormat /\ [][NextFormat]_vars

-----------------------------------------------------------------------------
(* Claims on one call of format_for_neo4j *)

Called == neo4j_data.error # "not called"
Returned == neo4j_data.error = "none"

\* the extractions and the document id that the call was given
GivenExtractions == dict_get_default(extraction_result, "extractions", <<>>)
GivenDocumentId == dict_get_default(extraction_result, "document_id", unknown_doc)

\* the positions, in input order, of the records that satisfy P
PositionsFrom(xs, first, P(_)) ==
    SelectSeq([i \in 1..Len(xs) |-> i], LAMBDA i : i >= first /\ P(xs[i]))

\* the keys of the attributes of a record, when they are a dict
AttributeKeys(rec) ==
    IF dict_get(rec, "attributes") = PyDict THEN DOMAIN rec.attributes_items ELSE {}

IsRelationshipRecord(rec) ==
    "extraction_class" \in DOMAIN rec /\ rec.extraction_class = relationship

\* a relationship record with the four link fields filled in and a
\* relation_type that is a str or is not given
CompleteRelationship(rec) ==
    /\ IsRelationshipRecord(rec)
    /\ \A k \in LinkKeys :
          k \in AttributeKeys(rec) /\ rec.attributes_items[k] \notin {None, <<>>}
    /\ "relation_type" \in AttributeKeys(rec) => rec.attributes_items.relation_type # None

\* a relationship record whose attributes do not hold one of the link keys
LacksLinkKey(rec) ==
    /\ IsRelationshipRecord(rec)
    /\ \E k \in LinkKeys : k \notin AttributeKeys(rec)

NoInterval(rec) ==
    "char_interval" \notin DOMAIN rec \/ rec.char_interval = None

IsEntityLike(rec) ==
    /\ "extraction_class" \in DOMAIN rec
    /\ rec.extraction_class \notin {None, <<>>, relationship}

NoNullValue(d) == \A k \in DOMAIN d : d[k] # None
NoPositionKeys(d) == {"start_pos", "end_pos"} \cap DOMAIN d = {}

\* First half of C3: no node and no edge that format_for_neo4j returns holds
\* a key whose value is None.
NullFreeGraph ==
    Returned =>
        /\ \A i \in 1..Len(neo4j_data.nodes) : NoNullValue(neo4j_data.nodes[i])
        /\ \A i \in 1..Len(neo4j_data.relationships) :
              NoNullValue(neo4j_data.relationships[i])

\* C3: no node and no edge returned by format_for_neo4j contains a key whose
\* value is null, and the node or edge of a record whose char_interval is
\* absent or null has no start_pos and no end_pos key.
C3_NullOmission ==
    Returned =>
        LET nodeOf == PositionsFrom(GivenExtractions, 1, IsEntityLike)
            edgeOf == PositionsFrom(GivenExtractions, 1, CompleteRelationship)
        IN  /\ NullFreeGraph
            /\ \A i \in 1..Len(neo4j_data.nodes) :
                  NoInterval(GivenExtractions[nodeOf[i]])
                      => NoPositionKeys(neo4j_data.nodes[i])
            /\ \A i \in 1..Len(neo4j_data.relationships) :
                  NoInterval(GivenExtractions[edgeOf[i]])
                      => NoPositionKeys(neo4j_data.relationships[i])

remove_at(xs, i) == SubSeq(xs, 1, i - 1) \o SubSeq(xs, i + 1, Len(xs))

EmptyGraph == [error |-> "none", nodes |-> <<>>, relationships |-> <<>>]

\* C4: a relationship record lacking one of head_text, head_class, tail_text,
\* tail_class produces no edge and no error: the call returns what it returns
\* for the same input without that record, and the empty graph when the
\* record is the whole input.
C4_RelationDrop ==
    Called =>
        \A i \in 1..Len(GivenExtractions) :
            LacksLinkKey(GivenExtractions[i]) =>
                /\ neo4j_data =
                     format_for_neo4j([extraction_result EXCEPT
                                          !.extractions = remove_at(GivenExtractions, i)])
                /\ Len(GivenExtractions) = 1 => neo4j_data = EmptyGraph

\* a call on two records, the second lacking a link key, that returned the
\* edge of the first
C4_Witness ==
    /\ Returned
    /\ Len(GivenExtractions) = 2
    /\ LacksLinkKey(GivenExtractions[2])
    /\ CompleteRelationship(GivenExtractions[1])
    /\ Len(neo4j_data.relationships) = 1

NodeIds == {neo4j_data.nodes[i].id : i \in 1..Len(neo4j_data.nodes)}

\* C5: every complete relationship record yields an edge, in input order,
\* whether or not a node with its source_id or target_id is emitted; an
\* input of complete relationship records alone returns no node and one
\* edge per record, without error.
C5_DanglingEdge ==
    LET edgeOf == PositionsFrom(GivenExtractions, 1, CompleteRelationship)
    IN  /\ Returned =>
              /\ Len(neo4j_data.relationships) = Len(edgeOf)
              /\ \A i \in 1..Len(edgeOf) :
                    LET a == GivenExtractions[edgeOf[i]].attributes_items
                        e == neo4j_data.relationships[i]
                    IN  /\ e.head_text = a.head_text /\ e.head_class = a.head_class
                        /\ e.tail_text = a.tail_text /\ e.tail_class = a.tail_class
        /\ (Called /\ Len(edgeOf) = Len(GivenExtractions)) =>
              /\ Returned
              /\ neo4j_data.nodes = <<>>
              /\ Len(neo4j_data.relationships) = Len(GivenExtractions)

\* a call on complete relationship records alone: no node, and edges whose
\* source_id is the id of no node
C5_Witness ==
    /\ Returned
    /\ Len(GivenExtractions) = 2
    /\ \A i \in 1..2 : CompleteRelationship(GivenExtractions[i])
    /\ neo4j_data.nodes = <<>>
    /\ Len(neo4j_data.relationships) = 2
    /\ \A i \in 1..2 : neo4j_data.relationships[i].source_id \notin NodeIds

-----------------------------------------------------------------------------
(* Harness: make_uid on one class and two texts *)

UidAlphabet == {"R", "r", " ", "\t"}
UidTexts == SeqsUpTo(UidAlphabet, MaxTextLen)
UidClasses == {character, T_place}

NoUids == [status |-> "not called", u1 |-> <<>>, u2 |-> <<>>, id1 |-> <<>>, id2 |-> <<>>]

InitUid ==
    /\ uid_in \in [cls : UidClasses, t1 : UidTexts, t2 : UidTexts]
    /\ uid_out = NoUids
    /\ FormatIdle /\ RepeatIdle /\ ParamsIdle /\ StoreIdle /\ HarnessIdle

\* make_uid on both texts, and the ids of the nodes of two entity records
\* that carry the class and the texts
MakeUid ==
    /\ uid_out.status = "not called"
    /\ uid_out' =
         [status |-> "done",
          u1 |-> make_uid(uid_in.cls, uid_in.t1),
          u2 |-> make_uid(uid_in.cls, uid_in.t2),
          id1 |-> _create_entity_node(BareEntity(uid_in.cls, uid_in.t1), T_d1).id,
          id2 |-> _create_entity_node(BareEntity(uid_in.cls, uid_in.t2), T_d1).id]
    /\ UNCHANGED <<uid_in, extraction_result, neo4j_data, first_call, last_call,
                   n_calls, granularity_in, params_out, strategies_cache,
                   current_strategy, last_op, n_ops, harness_vars>>

NextUid == MakeUid

SpecUid == InitUid /\ [][NextUid]_vars

\* The normalisation as the specification words it: trim, lowercase, then
\* collapse every run of whitespace to a single space.
RECURSIVE CollapseRuns(_)
CollapseRuns(s) ==
    IF s = <<>> THEN <<>>
    ELSE IF Head(s) \in Whitespace
         THEN IF Len(s) > 1 /\ s[2] \in Whitespace
              THEN CollapseRuns(Tail(s))
              ELSE <<" ">> \o CollapseRuns(Tail(s))
         ELSE <<Head(s)>> \o CollapseRuns(Tail(s))

RECURSIVE Trimmed(_)
Trimmed(s) ==
    IF s = <<>> THEN s
    ELSE IF s[1] \in Whitespace THEN Trimmed(SubSeq(s, 2, Len(s)))
    ELSE IF s[Len(s)] \in Whitespace THEN Trimmed(SubSeq(s, 1, Len(s) - 1))
    ELSE s

Lowercased(s) ==
    [i \in 1..Len(s) |->
        IF \E j \in 1..Len(UpperAlpha) : UpperAlpha[j] = s[i]
        THEN LowerAlpha[CHOOSE j \in 1..Len(UpperAlpha) : UpperAlpha[j] = s[i]]
        ELSE s[i]]

Normalized(s) == CollapseRuns(Lowercased(Trimmed(s)))

-----------------------------------------------------------------------------
(* Harness: one process calling format_for_neo4j again and again *)

RepeatRecords ==
    {FullEntity(character, T_Ro), FullEntity(T_place, T_ro_padded),
     Relationship(CompleteAttributes, PyDict),
     Relationship(without(CompleteAttributes, {"relation_type"}), None),
     Relationship(without(CompleteAttributes, {"tail_class"}), PyDict)}

RepeatResults == Results(RepeatRecords, MaxRepeatRecs)

NoCall == [arg |-> [extractions |-> <<>>], ret |-> NoGraph, other_between |-> FALSE]

InitRepeat ==
    /\ first_call = NoCall /\ last_call = NoCall /\ n_calls = 0
    /\ UidIdle /\ FormatIdle /\ ParamsIdle /\ StoreIdle /\ HarnessIdle

\* the first call of the process
FormatFirst(result) ==
    /\ n_calls = 0
    /\ first_call' = [arg |-> result, ret |-> format_for_neo4j(result),
                      other_between |-> FALSE]
    /\ last_call' = first_call'
    /\ n_calls' = 1
    /\ UNCHANGED <<uid_in, uid_out, extraction_result, neo4j_data, granularity_in,
                   params_out, strategies_cache, current_strategy, last_op, n_ops, harness_vars>>

\* a later call; other_between records whether a call on another input
\* was made since the first call
FormatAgain(result) ==
    /\ 0 < n_calls /\ n_calls < MaxCalls
    /\ last_call' = [arg |-> result, ret |-> format_for_neo4j(result),
                     other_between |-> last_call.other_between
                                          \/ last_call.arg # first_call.arg]
    /\ n_calls' = n_calls + 1
    /\ UNCHANGED <<uid_in, uid_out, extraction_result, neo4j_data, first_call,
                   granularity_in, params_out, strategies_cache, current_strategy,
                   last_op, n_ops, harness_vars>>

NextRepeat ==
    \/ \E result \in RepeatResults : FormatFirst(result)
    \/ \E result \in RepeatResults : FormatAgain(result)

SpecRepeat == InitRepeat /\ [][NextRepeat]_vars

-----------------------------------------------------------------------------
(* ConfigurableExtractor._adjust_extraction_parameters *)

\* Temperatures are counted in hundredths: 0.05 is 5, 0.3 is 30.

Max(a, b) == IF a >= b THEN a ELSE b
Min(a, b) == IF a <= b THEN a ELSE b

\* _adjust_extraction_parameters with surface setting the temperature to
\* 0.05 instead of capping it
_adjust_surface_assigns(granularity, base_url) ==
    LET byBreadth ==
            IF granularity.breadth = "minimal"
            THEN [extraction_passes |-> 1, max_char_buffer |-> 1000, temperature |-> 0]
            ELSE IF granularity.breadth = "comprehensive"
            THEN [extraction_passes |-> 3, max_char_buffer |-> 2000, temperature |-> 20]
            ELSE [extraction_passes |-> 2, max_char_buffer |-> 1500, temperature |-> 10]
        byDepth ==
            IF granularity.depth = "inferential"
            THEN [byBreadth EXCEPT !.temperature = Max(@, 30)]
            ELSE IF granularity.depth = "surface"
            THEN [byBreadth EXCEPT !.temperature = 5]
            ELSE byBreadth
    IN  IF granularity.context_scope = "document"
        THEN [byDepth EXCEPT !.max_char_buffer = @ * 2]
        ELSE IF granularity.context_scope = "local"
        THEN [byDepth EXCEPT !.max_char_buffer = @ \div 2]
        ELSE byDepth

\* _adjust_extraction_parameters with the standard row given to the breadth
\* "standard" alone, and the minimal row to any other value
_adjust_unknown_as_minimal(granularity, base_url) ==
    LET byBreadth ==
            IF granularity.breadth = "standard"
            THEN [extraction_passes |-> 2, max_char_buffer |-> 1500, temperature |-> 10]
            ELSE IF granularity.breadth = "comprehensive"
            THEN [extraction_passes |-> 3, max_char_buffer |-> 2000, temperature |-> 20]
            ELSE [extraction_passes |-> 1, max_char_buffer |-> 1000, temperature |-> 0]
        byDepth ==
            IF granularity.depth = "inferential"
            THEN [byBreadth EXCEPT !.temperature = Max(@, 30)]
            ELSE IF granularity.depth = "surface"
            THEN [byBreadth EXCEPT !.temperature = Min(@, 5)]
            ELSE byBreadth
        byScope ==
            IF granularity.context_scope = "document"
            THEN [byDepth EXCEPT !.max_char_buffer = @ * 2]
            ELSE IF granularity.context_scope = "local"
            THEN [byDepth EXCEPT !.max_char_buffer = @ \div 2]
            ELSE byDepth
    IN  IF base_url # ""
        THEN dict_update(byScope, [fence_output |-> TRUE,
                                   use_schema_constraints |-> FALSE])
        ELSE byScope

\* The params dict returned for strategy.granularity; base_url is
\* settings.base_url.
_adjust_extraction_parameters(granularity, base_url) ==
    LET byBreadth ==
            IF granularity.breadth = "minimal"
            THEN [extraction_passes |-> 1, max_char_buffer |-> 1000, temperature |-> 0]
            ELSE IF granularity.breadth = "comprehensive"
            THEN [extraction_passes |-> 3, max_char_buffer |-> 2000, temperature |-> 20]
            ELSE [extraction_passes |-> 2, max_char_buffer |-> 1500, temperature |-> 10]
        byDepth ==
            IF granularity.depth = "inferential"
            THEN [byBreadth EXCEPT !.temperature = Max(@, 30)]
            ELSE IF granularity.depth = "surface"
            THEN [byBreadth EXCEPT !.temperature = Min(@, 5)]
            ELSE byBreadth
        byScope ==
            IF granularity.context_scope = "document"
            THEN [byDepth EXCEPT !.max_char_buffer = @ * 2]
            ELSE IF granularity.context_scope = "local"
            THEN [byDepth EXCEPT !.max_char_buffer = @ \div 2]
            ELSE byDepth
    IN  IF base_url # ""
        THEN dict_update(byScope, [fence_output |-> TRUE,
                                   use_schema_constraints |-> FALSE])
        ELSE byScope

\* the documented levels, and one value outside them for each field
Breadths == {"minimal", "standard", "comprehensive"}
Depths == {"surface", "semantic", "inferential"}
Confidences == {"high", "medium", "all"}
ContextScopes == {"local", "paragraph", "document"}
UnknownLevel == "exhaustive"
\* a field may also hold None: nothing validates a GranularityConfig
UnknownLevels == {UnknownLevel, "<None>"}

NoParams == [extraction_passes |-> 0, max_char_buffer |-> 0, temperature |-> 0]

InitParams ==
    /\ granularity_in \in
         [granularity : [breadth : Breadths \cup UnknownLevels,
                         depth : Depths \cup UnknownLevels,
                         confidence : Confidences,
                         context_scope : ContextScopes \cup UnknownLevels],
          base_url : {"", "your_base_url_here"}]
    /\ params_out = NoParams
    /\ UidIdle /\ FormatIdle /\ RepeatIdle /\ StoreIdle /\ HarnessIdle

AdjustParameters ==
    /\ params_out = NoParams
    /\ params_out' = _adjust_extraction_parameters(granularity_in.granularity,
                                                   granularity_in.base_url)
    /\ UNCHANGED <<uid_in, uid_out, extraction_result, neo4j_data, first_call,
                   last_call, n_calls, granularity_in, strategies_cache,
                   current_strategy, last_op, n_ops, harness_vars>>

NextParams == AdjustParameters

SpecParams == InitParams /\ [][NextParams]_vars

\* The table of the specification, row by row: <<passes, window, temperature>>
BreadthRow(breadth) ==
    CASE breadth = "minimal" -> <<1, 1000, 0>>
      [] breadth = "standard" -> <<2, 1500, 10>>
      [] breadth = "comprehensive" -> <<3, 2000, 20>>

DepthRow(depth, temp) ==
    CASE depth = "inferential" -> (IF temp < 30 THEN 30 ELSE temp)
      [] depth = "surface" -> (IF temp > 5 THEN 5 ELSE temp)
      [] depth = "semantic" -> temp

ScopeRow(scope, window) ==
    CASE scope = "document" -> window + window
      [] scope = "local" -> window \div 2
      [] scope = "paragraph" -> window

ParamsGiven == params_out # NoParams
ParamsFor(b, d, c) ==
    /\ ParamsGiven
    /\ granularity_in.granularity.breadth = b
    /\ granularity_in.granularity.depth = d
    /\ granularity_in.granularity.context_scope = c
ParamsAre(passes, window, temp) ==
    /\ params_out.extraction_passes = passes
    /\ params_out.max_char_buffer = window
    /\ params_out.temperature = temp

\* C6: for every documented (breadth, depth, context_scope) the parameters
\* returned are the table value: breadth gives the base row, then depth
\* clamps the temperature, then the scope scales the window.
C6_ParameterTable ==
    LET g == granularity_in.granularity
    IN  /\ (ParamsGiven /\ g.breadth \in Breadths /\ g.depth \in Depths
                /\ g.context_scope \in ContextScopes) =>
              ParamsAre(BreadthRow(g.breadth)[1],
                        ScopeRow(g.context_scope, BreadthRow(g.breadth)[2]),
                        DepthRow(g.depth, BreadthRow(g.breadth)[3]))
        /\ ParamsFor("minimal", "semantic", "paragraph") => ParamsAre(1, 1000, 0)
        /\ ParamsFor("comprehensive", "inferential", "document") => ParamsAre(3, 4000, 30)
        /\ ParamsFor("standard", "surface", "local") => ParamsAre(2, 750, 5)
        /\ ParamsFor("minimal", "surface", "local") => ParamsAre(1, 500, 0)

\* a worked example of the table has been derived: surface caps the
\* temperature and local halves the window
C6_Witness ==
    /\ ParamsFor("standard", "surface", "local")
    /\ ParamsAre(2, 750, 5)

-----------------------------------------------------------------------------
(* ExtractionStrategy: the strategy store *)

\* A str argument that is None is the string NoneStr; a list argument that
\* is None is the token None.
NoneStr == "<None>"
TruthyStr(x) == x \notin {NoneStr, ""}
TruthyList(xs) == xs \notin {None, <<>>}

\* x or y
or_str(x, y) == IF TruthyStr(x) THEN x ELSE y
or_list(xs, ys) == IF TruthyList(xs) THEN xs ELSE ys

\* GranularityConfig()
DefaultGranularity ==
    [breadth |-> "standard", depth |-> "semantic",
     confidence |-> "medium", context_scope |-> "paragraph"]

\* a strategy file with the required keys and no other
BusinessFile ==
    [name |-> "business", description |-> "Business analysis",
     version |-> "1.1",
     entities |-> <<"company", "person">>,
     relations |-> <<"employs">>]

\* The strategies directory: the parsed content of <name>.yaml for every
\* file there is.  "literary" sets every field, "business" only the
\* required ones, "broken" lacks relations and each "no_<key>" lacks that
\* key.
StrategyFiles ==
    [literary |->
        [name |-> "literary", description |-> "Literary analysis",
         version |-> "2.0",
         entities |-> <<"character", "emotion", "setting">>,
         relations |-> <<"relationship", "conflict">>,
         granularity |-> [breadth |-> "comprehensive", depth |-> "inferential",
                          confidence |-> "all", context_scope |-> "document"],
         extraction_rules |-> "rules of literary",
         prompt_template |-> "literary",
         examples |-> "examples of literary",
         post_processing |-> "post-processing of literary",
         special_settings |-> "settings of literary"],
     business |-> BusinessFile,
     broken |-> without(BusinessFile, {"relations"}),
     no_name |-> without(BusinessFile, {"name"}),
     no_description |-> without(BusinessFile, {"description"}),
     no_version |-> without(BusinessFile, {"version"}),
     no_entities |-> without(BusinessFile, {"entities"})]

RequiredKeys == {"name", "description", "version", "entities", "relations"}

NoStrategy ==
    [name |-> NoneStr, description |-> "", version |-> "", entities |-> <<>>,
     relations |-> <<>>, granularity |-> DefaultGranularity,
     extraction_rules |-> "", prompt_template |-> "", examples |-> "",
     post_processing |-> "", special_settings |-> ""]

\* the ExtractionConfig built from the parsed content of a strategy file
parse_strategy(config_data) ==
    LET granularity_data ==
            dict_get_default(config_data, "granularity", EmptyDict)
    IN  [name |-> config_data.name,
         description |-> config_data.description,
         version |-> config_data.version,
         entities |-> config_data.entities,
         relations |-> config_data.relations,
         granularity |->
            [breadth |-> dict_get_default(granularity_data, "breadth", "standard"),
             depth |-> dict_get_default(granularity_data, "depth", "semantic"),
             confidence |-> dict_get_default(granularity_data, "confidence", "medium"),
             context_scope |->
                dict_get_default(granularity_data, "context_scope", "paragraph")],
         extraction_rules |-> dict_get_default(config_data, "extraction_rules", "{}"),
         prompt_template |-> dict_get_default(config_data, "prompt_template", "base"),
         examples |-> dict_get_default(config_data, "examples", "{}"),
         post_processing |-> dict_get_default(config_data, "post_processing", "{}"),
         special_settings |-> dict_get_default(config_data, "special_settings", "{}")]

\* cache[name] = value
cache_put(cache, name, value) ==
    [k \in (DOMAIN cache) \cup {name} |-> IF k = name THEN value ELSE cache[k]]

\* The outcome of a call is [error, value, cache]: the exception raised
\* ("none" when the call returns), the value returned, and the cache as the
\* call leaves it.
\* load_strategy with the cache written before the definition is parsed
load_strategy_caching_first(cache, strategy_name) ==
    IF strategy_name \in DOMAIN cache
    THEN [error |-> "none", value |-> cache[strategy_name], cache |-> cache]
    ELSE IF strategy_name \notin DOMAIN StrategyFiles
    THEN [error |-> "FileNotFoundError", value |-> NoStrategy, cache |-> cache]
    ELSE IF ~(RequiredKeys \subseteq DOMAIN StrategyFiles[strategy_name])
    THEN [error |-> "ValueError", value |-> NoStrategy,
          cache |-> cache_put(cache, strategy_name, NoStrategy)]
    ELSE LET strategy_config == parse_strategy(StrategyFiles[strategy_name])
         IN  [error |-> "none", value |-> strategy_config,
              cache |-> cache_put(cache, strategy_name, strategy_config)]

load_strategy(cache, strategy_name) ==
    IF strategy_name \in DOMAIN cache
    THEN [error |-> "none", value |-> cache[strategy_name], cache |-> cache]
    ELSE IF strategy_name \notin DOMAIN StrategyFiles
    THEN [error |-> "FileNotFoundError", value |-> NoStrategy, cache |-> cache]
    ELSE IF ~(RequiredKeys \subseteq DOMAIN StrategyFiles[strategy_name])
    THEN [error |-> "ValueError", value |-> NoStrategy, cache |-> cache]
    ELSE LET strategy_config == parse_strategy(StrategyFiles[strategy_name])
         IN  [error |-> "none", value |-> strategy_config,
              cache |-> cache_put(cache, strategy_name, strategy_config)]

\* description is NoneStr and granularity is NoGranularity when the caller
\* leaves them out; kwargs is the dict of the other keyword arguments
NoGranularity ==
    [breadth |-> NoneStr, depth |-> NoneStr,
     confidence |-> NoneStr, context_scope |-> NoneStr]

create_custom_strategy(cache, name, entities, relations, description, granularity, kwargs) ==
    LET custom_strategy ==
            [name |-> name,
             description |->
                IF description = NoneStr
                THEN "Custom extraction strategy: " \o name ELSE description,
             version |-> "1.0",
             entities |-> entities,
             relations |-> relations,
             granularity |->
                IF granularity = NoGranularity THEN DefaultGranularity ELSE granularity,
             extraction_rules |-> dict_get_default(kwargs, "extraction_rules", "{}"),
             prompt_template |-> dict_get_default(kwargs, "prompt_template", "base"),
             examples |-> dict_get_default(kwargs, "examples", "{}"),
             post_processing |-> dict_get_default(kwargs, "post_processing", "{}"),
             special_settings |-> dict_get_default(kwargs, "special_settings", "{}")]
    IN  [error |-> "none", value |-> custom_strategy,
         cache |-> cache_put(cache, name, custom_strategy)]

-----------------------------------------------------------------------------
(* ConfigurableExtractor: strategy resolution *)

DefaultEntities == <<"character", "emotion">>
DefaultRelations == <<"relationship">>

\* args is the record of the arguments of extract: strategy, entities,
\* relations, description, breadth, depth, confidence, context_scope, kwargs
\* (description is used by create_custom_strategy alone).

\* GranularityConfig(breadth=... or "standard", ...) whatever the base is
granularity_of_defaults(args, base) ==
    [breadth |-> or_str(args.breadth, "standard"),
     depth |-> or_str(args.depth, "semantic"),
     confidence |-> or_str(args.confidence, "medium"),
     context_scope |-> or_str(args.context_scope, "paragraph")]

\* GranularityConfig(breadth=breadth or base.breadth, ...)
granularity_of(args, base) ==
    [breadth |-> or_str(args.breadth, base.breadth),
     depth |-> or_str(args.depth, base.depth),
     confidence |-> or_str(args.confidence, base.confidence),
     context_scope |-> or_str(args.context_scope, base.context_scope)]

\* _create_fallback_strategy passing the entities and relations on as given
_create_fallback_without_defaults(cache, args) ==
    create_custom_strategy(
        cache, "fallback", args.entities, args.relations,
        "Fallback extraction strategy",
        granularity_of(args, DefaultGranularity), EmptyDict)

_create_fallback_strategy(cache, args) ==
    create_custom_strategy(
        cache, "fallback",
        or_list(args.entities, DefaultEntities),
        or_list(args.relations, DefaultRelations),
        "Fallback extraction strategy",
        granularity_of(args, DefaultGranularity), EmptyDict)

\* any([breadth, depth, confidence, context_scope]): entities and relations
\* left out of the test
any_granularity_override(args) ==
    \/ TruthyStr(args.breadth) \/ TruthyStr(args.depth)
    \/ TruthyStr(args.confidence) \/ TruthyStr(args.context_scope)

\* any([breadth, depth, confidence, context_scope, entities, relations])
any_override(args) ==
    \/ TruthyStr(args.breadth) \/ TruthyStr(args.depth)
    \/ TruthyStr(args.confidence) \/ TruthyStr(args.context_scope)
    \/ TruthyList(args.entities) \/ TruthyList(args.relations)

\* _determine_strategy with `except Exception` in place of
\* `except FileNotFoundError`: every failed load gives the fallback
_determine_strategy_catching_all(cache, args) ==
    IF TruthyStr(args.strategy)
    THEN LET loaded == load_strategy(cache, args.strategy)
             base_strategy == loaded.value
         IN  IF loaded.error # "none"
             THEN _create_fallback_strategy(cache, args)
             ELSE IF any_override(args)
             THEN create_custom_strategy(
                     loaded.cache, args.strategy \o "_custom",
                     or_list(args.entities, base_strategy.entities),
                     or_list(args.relations, base_strategy.relations),
                     base_strategy.description,
                     granularity_of(args, base_strategy.granularity),
                     args.kwargs)
             ELSE loaded
    ELSE IF TruthyList(args.entities) \/ TruthyList(args.relations)
    THEN create_custom_strategy(
            cache, "custom",
            or_list(args.entities, DefaultEntities),
            or_list(args.relations, DefaultRelations),
            "Custom extraction strategy",
            granularity_of(args, DefaultGranularity),
            args.kwargs)
    ELSE _create_fallback_strategy(cache, args)

_determine_strategy(cache, args) ==
    IF TruthyStr(args.strategy)
    THEN LET loaded == load_strategy(cache, args.strategy)
             base_strategy == loaded.value
         IN  IF loaded.error = "FileNotFoundError"
             THEN _create_fallback_strategy(cache, args)
             ELSE IF loaded.error # "none"
             THEN loaded
             ELSE IF any_override(args)
             THEN create_custom_strategy(
                     loaded.cache, args.strategy \o "_custom",
                     or_list(args.entities, base_strategy.entities),
                     or_list(args.relations, base_strategy.relations),
                     base_strategy.description,
                     granularity_of(args, base_strategy.granularity),
                     args.kwargs)
             ELSE loaded
    ELSE IF TruthyList(args.entities) \/ TruthyList(args.relations)
    THEN create_custom_strategy(
            cache, "custom",
            or_list(args.entities, DefaultEntities),
            or_list(args.relations, DefaultRelations),
            "Custom extraction strategy",
            granularity_of(args, DefaultGranularity),
            args.kwargs)
    ELSE _create_fallback_strategy(cache, args)

-----------------------------------------------------------------------------
(* ConfigurablePromptGenerator *)

\* The Jinja2 environment is [loader, found, failing]: whether the templates
\* directory exists (the environment has a loader), the names of the
\* template files in it, and the templates (files, or "builtin") whose
\* render() raises for the strategy at hand.

\* _get_template without its second try: the named file, else the built-in
\* template
_get_template_skipping_base(template_name, env) ==
    IF env.loader /\ template_name \in env.found THEN template_name
    ELSE "builtin"

\* the template _get_template returns: the named file, else base.jinja2,
\* else the built-in template; get_template raises without a loader
_get_template(template_name, env) ==
    IF env.loader /\ template_name \in env.found THEN template_name
    ELSE IF env.loader /\ "base" \in env.found THEN "base"
    ELSE "builtin"

\* ', '.join(xs) raises TypeError unless xs is iterable and every item a str
joinable(xs) == xs # None /\ \A i \in 1..Len(xs) : xs[i] # NoneStr

\* The outcome of a call is [error, source, strategy]: the exception that
\* reaches the caller ("none" when a string is returned), the template the
\* string was rendered from, and the strategy it was rendered for.
NoPrompt == [error |-> "not called", source |-> "", strategy |-> NoStrategy]

_generate_fallback_prompt(strategy) ==
    IF joinable(strategy.entities) /\ joinable(strategy.relations)
    THEN [error |-> "none", source |-> "fallback", strategy |-> strategy]
    ELSE [error |-> "TypeError", source |-> "", strategy |-> NoStrategy]

generate_prompt(strategy, env) ==
    LET template == _get_template(strategy.prompt_template, env)
    IN  IF template \notin env.failing
        THEN [error |-> "none", source |-> template, strategy |-> strategy]
        ELSE _generate_fallback_prompt(strategy)

-----------------------------------------------------------------------------
(* ConfigurableExtractor.extract, up to the call of the engine *)

\* settings.base_url
settings_base_url == "your_base_url_here"

\* standard_params; the prompt validation level is written by its name
standard_params ==
    [fence_output |-> TRUE, use_schema_constraints |-> FALSE,
     prompt_validation_level |-> "OFF", debug |-> FALSE]

\* {**extraction_params, **standard_params}: the standard parameters last
final_params_standard_last(extraction_strategy, kwargs) ==
    dict_update(
        dict_update(
            _adjust_extraction_parameters(extraction_strategy.granularity,
                                          settings_base_url),
            kwargs),
        standard_params)

\* {**standard_params, **extraction_params} after extraction_params.update(kwargs)
final_params_of(extraction_strategy, kwargs) ==
    dict_update(
        standard_params,
        dict_update(
            _adjust_extraction_parameters(extraction_strategy.granularity,
                                          settings_base_url),
            kwargs))

-----------------------------------------------------------------------------
(* Harness: calls of load_strategy, create_custom_strategy and extract on
   one strategy manager and one extractor, in any order *)

NoArgs ==
    [strategy |-> NoneStr, entities |-> None, relations |-> None,
     description |-> NoneStr, breadth |-> NoneStr, depth |-> NoneStr,
     confidence |-> NoneStr, context_scope |-> NoneStr, kwargs |-> EmptyDict]

\* last_op before any call
NoOp ==
    [op |-> "none", args |-> NoArgs, error |-> "none", resolved |-> NoStrategy,
     final_params |-> EmptyDict]

\* The names asked for: files of the strategies directory, a name with no
\* file, and the names under which extract caches what it synthesizes.
LoadNames ==
    {"literary", "business", "broken", "no_name", "no_description", "no_version",
     "no_entities", "missing", "custom", "fallback"}
ExtractNames == {NoneStr, "literary", "broken", "missing", "custom", "fallback"}
EntityArgs == {None, <<"place">>}
RelationArgs == {None, <<"knows">>}
BreadthArgs == {NoneStr, "minimal"}

\* every name with every combination of an entity and a relation override,
\* and every name with a breadth override alone
PlainArgs ==
    {[NoArgs EXCEPT !.strategy = s, !.entities = e, !.relations = r] :
        s \in ExtractNames, e \in EntityArgs, r \in RelationArgs}
    \cup {[NoArgs EXCEPT !.strategy = s, !.breadth = b] :
        s \in ExtractNames, b \in BreadthArgs}

\* the other granularity fields, arguments that are given but empty, and
\* keyword arguments for the engine and for create_custom_strategy
OtherArgs ==
    {[NoArgs EXCEPT !.strategy = s, !.depth = "surface"] :
        s \in {NoneStr, "literary"}}
    \cup {[NoArgs EXCEPT !.strategy = s, !.confidence = "high",
                         !.context_scope = "local"] :
        s \in {NoneStr, "literary"}}
    \cup {[NoArgs EXCEPT !.strategy = s, !.entities = <<>>, !.breadth = ""] :
        s \in {NoneStr, "literary"}}
    \cup {[NoArgs EXCEPT !.strategy = "", !.entities = e] : e \in EntityArgs}
    \cup {[NoArgs EXCEPT !.strategy = s, !.entities = <<"place">>,
                         !.kwargs = [prompt_template |-> "literary",
                                     temperature |-> 50,
                                     fence_output |-> FALSE,
                                     debug |-> TRUE]] :
        s \in {NoneStr, "literary"}}

ExtractArgs == PlainArgs \cup OtherArgs

\* create_custom_strategy called directly, as the tests do, and under the
\* name of a strategy file
CreateArgs ==
    {[NoArgs EXCEPT !.strategy = s, !.entities = <<"person", "action">>,
                    !.relations = <<"performs">>, !.description = d] :
        s \in {"test_custom", "literary"},
        d \in {NoneStr, "Test custom strategy"}}
    \cup {[NoArgs EXCEPT !.strategy = "test_custom", !.entities = <<>>,
                         !.relations = <<>>]}
    \* entities left as None: nothing checks the lists
    \cup {[NoArgs EXCEPT !.strategy = "literary", !.relations = <<"performs">>]}

Init ==
    /\ strategies_cache = EmptyDict
    /\ current_strategy = NoStrategy
    /\ last_op = NoOp
    /\ n_ops = 0
    /\ UidIdle /\ FormatIdle /\ RepeatIdle /\ ParamsIdle /\ HarnessIdle

StoreFrame ==
    UNCHANGED <<uid_in, uid_out, extraction_result, neo4j_data, first_call,
                last_call, n_calls, granularity_in, params_out, harness_vars>>

LoadStrategy(strategy_name) ==
    LET out == load_strategy(strategies_cache, strategy_name)
    IN  /\ n_ops < MaxOps
        /\ n_ops' = n_ops + 1
        /\ strategies_cache' = out.cache
        /\ last_op' = [NoOp EXCEPT !.op = "load_strategy",
                                   !.args = [NoArgs EXCEPT !.strategy = strategy_name],
                                   !.error = out.error, !.resolved = out.value]
        /\ UNCHANGED current_strategy
        /\ StoreFrame

CreateCustomStrategy(args) ==
    LET granularity ==
            [breadth |-> args.breadth, depth |-> args.depth,
             confidence |-> args.confidence, context_scope |-> args.context_scope]
        out == create_custom_strategy(strategies_cache, args.strategy,
                                      args.entities, args.relations,
                                      args.description, granularity, args.kwargs)
    IN  /\ n_ops < MaxOps
        /\ n_ops' = n_ops + 1
        /\ strategies_cache' = out.cache
        /\ last_op' = [NoOp EXCEPT !.op = "create_custom_strategy", !.args = args,
                                   !.error = out.error, !.resolved = out.value]
        /\ UNCHANGED current_strategy
        /\ StoreFrame

\* prompt_generator is built on the templates directory beside its module,
\* which the sources do not hold: the environment has no loader and the
\* template is the built-in one.  The environment in which its rendering
\* raises:
FailingEnv == [loader |-> FALSE, found |-> {}, failing |-> {"builtin"}]

\* what can happen to a call after the strategy is resolved: it returns,
\* generate_prompt raises, or lx.extract raises
ExtractOutcomes == {"none", "PromptError", "EngineError"}

\* outcome "PromptError" is open to the strategies for which generate_prompt
\* can raise, and the error of the call is then the one it raises.  The
\* strategy of the call is saved after lx.extract has returned, and in no
\* other case.  The examples are a pure value handed to the engine.  A call
\* whose resolution raises has that one outcome.

\* extract saving the strategy as soon as it is resolved
Extract_saving_at_resolution(args, outcome) ==
    LET out == _determine_strategy(strategies_cache, args)
        extraction_strategy == out.value
        prompt == generate_prompt(extraction_strategy, FailingEnv)
    IN  /\ n_ops < MaxOps
        /\ n_ops' = n_ops + 1
        /\ strategies_cache' = out.cache
        /\ IF out.error # "none"
           THEN /\ outcome = "none"
                /\ last_op' = [NoOp EXCEPT !.op = "extract", !.args = args,
                                           !.error = out.error]
                /\ UNCHANGED current_strategy
           ELSE /\ outcome = "PromptError" => prompt.error # "none"
                /\ last_op' =
                     [op |-> "extract", args |-> args,
                      error |-> IF outcome = "PromptError" THEN prompt.error
                                ELSE outcome,
                      resolved |-> extraction_strategy,
                      final_params |->
                         IF outcome = "PromptError" THEN EmptyDict
                         ELSE final_params_of(extraction_strategy, args.kwargs)]
                /\ current_strategy' = extraction_strategy
        /\ StoreFrame

Extract(args, outcome) ==
    LET out == _determine_strategy(strategies_cache, args)
        extraction_strategy == out.value
        prompt == generate_prompt(extraction_strategy, FailingEnv)
    IN  /\ n_ops < MaxOps
        /\ n_ops' = n_ops + 1
        /\ strategies_cache' = out.cache
        /\ IF out.error # "none"
           THEN /\ outcome = "none"
                /\ last_op' = [NoOp EXCEPT !.op = "extract", !.args = args,
                                           !.error = out.error]
                /\ UNCHANGED current_strategy
           ELSE /\ outcome = "PromptError" => prompt.error # "none"
                /\ last_op' =
                     [op |-> "extract", args |-> args,
                      error |-> IF outcome = "PromptError" THEN prompt.error
                                ELSE outcome,
                      resolved |-> extraction_strategy,
                      final_params |->
                         IF outcome = "PromptError" THEN EmptyDict
                         ELSE final_params_of(extraction_strategy, args.kwargs)]
                /\ current_strategy' =
                     IF outcome = "none" THEN extraction_strategy
                     ELSE current_strategy
        /\ StoreFrame

Next ==
    \/ \E strategy_name \in LoadNames : LoadStrategy(strategy_name)
    \/ \E args \in CreateArgs : CreateCustomStrategy(args)
    \/ \E args \in ExtractArgs, outcome \in ExtractOutcomes : Extract(args, outcome)

Spec == Init /\ [][Next]_vars

-----------------------------------------------------------------------------
(* Claims on strategy resolution and on the cache *)

\* the step is a call of extract
ExtractStep == n_ops' = n_ops + 1 /\ last_op'.op = "extract"

\* resolution returned a strategy (the prompt or the engine may still have
\* failed)
Resolved(op) == op.op = "extract" /\ op.error \in {"none", "TypeError", "EngineError"}

\* the call built its parameters and called the engine
ReachedEngine(op) == op.op = "extract" /\ op.error \in {"none", "EngineError"}

\* An argument counts as given when it is truthy: None, "" and [] are what
\* `if strategy`, `x or default` and any([...]) take for absent.
NameGiven(args) == TruthyStr(args.strategy)
GranularityOverride(args) ==
    \/ TruthyStr(args.breadth) \/ TruthyStr(args.depth)
    \/ TruthyStr(args.confidence) \/ TruthyStr(args.context_scope)
EntityOrRelationOverride(args) ==
    TruthyList(args.entities) \/ TruthyList(args.relations)
AnyOverride(args) == GranularityOverride(args) \/ EntityOrRelationOverride(args)

\* nothing but the name was passed
NothingSupplied(args) ==
    /\ args.entities = None /\ args.relations = None
    /\ args.breadth = NoneStr /\ args.depth = NoneStr
    /\ args.confidence = NoneStr /\ args.context_scope = NoneStr

OnlyBreadth(args) ==
    /\ TruthyStr(args.breadth)
    /\ args.entities = None /\ args.relations = None
    /\ args.depth = NoneStr /\ args.confidence = NoneStr
    /\ args.context_scope = NoneStr

\* C7: an extract call that names a strategy already in the cache and
\* overrides only breadth resolves to "{name}_custom" with the breadth asked
\* for and the depth, confidence and context_scope of the cached base, and
\* the entry cached under the base name is after the call what it was before.
C7_OverrideIndependence ==
    [][(/\ ExtractStep
        /\ NameGiven(last_op'.args)
        /\ OnlyBreadth(last_op'.args)
        /\ last_op'.args.strategy \in DOMAIN strategies_cache) =>
          LET name == last_op'.args.strategy
              base == strategies_cache[name]
              derived == last_op'.resolved
          IN  /\ Resolved(last_op')
              /\ derived.name = name \o "_custom"
              /\ derived.granularity.breadth = last_op'.args.breadth
              /\ derived.granularity.depth = base.granularity.depth
              /\ derived.granularity.confidence = base.granularity.confidence
              /\ derived.granularity.context_scope = base.granularity.context_scope
              /\ name \in DOMAIN strategies_cache'
              /\ strategies_cache'[name] = base
              /\ strategies_cache'[derived.name] = derived]_vars

\* "literary" was resolved by an earlier call (it is the saved strategy, and
\* this call's engine failed, so it was saved before), hence cached; this
\* call derived "literary_custom" from it with breadth alone overridden
C7_Witness ==
    /\ Resolved(last_op) /\ last_op.error = "EngineError"
    /\ current_strategy.name = "literary"
    /\ last_op.args.strategy = "literary"
    /\ OnlyBreadth(last_op.args)
    /\ last_op.resolved.name = "literary_custom"
    /\ last_op.resolved.granularity =
         [breadth |-> "minimal", depth |-> "inferential",
          confidence |-> "all", context_scope |-> "document"]
    /\ strategies_cache["literary"].granularity.breadth = "comprehensive"

IsDefaultFallback(strategy) ==
    /\ strategy.name = "fallback"
    /\ strategy.entities = DefaultEntities
    /\ strategy.relations = DefaultRelations

\* C8 as stated: in every reachable state, an extract call that named a
\* strategy with no definition file and passed no override resolved to the
\* strategy "fallback" with entities [character, emotion] and relations
\* [relationship].
C8_FallbackChain ==
    (/\ last_op.op = "extract"
     /\ NameGiven(last_op.args)
     /\ last_op.args.strategy \notin DOMAIN StrategyFiles
     /\ NothingSupplied(last_op.args)) =>
        (Resolved(last_op) /\ IsDefaultFallback(last_op.resolved))

\* C8: an extract call that names a strategy with no definition file and
\* no entry in the cache, and passes no override, resolves to the strategy
\* "fallback" with entities [character, emotion] and relations
\* [relationship], and caches it under "fallback".
C8_FallbackChainUncached ==
    [][(/\ ExtractStep
        /\ NameGiven(last_op'.args)
        /\ last_op'.args.strategy \notin DOMAIN StrategyFiles
        /\ last_op'.args.strategy \notin DOMAIN strategies_cache
        /\ NothingSupplied(last_op'.args)) =>
          /\ Resolved(last_op')
          /\ IsDefaultFallback(last_op'.resolved)
          /\ strategies_cache'["fallback"] = last_op'.resolved]_vars

\* the second call asked for "missing" with nothing else, after a first call
\* had left something in the cache, and got the default fallback
C8_Witness ==
    /\ n_ops = 2
    /\ Resolved(last_op)
    /\ last_op.args.strategy = "missing"
    /\ NothingSupplied(last_op.args)
    /\ "missing" \notin DOMAIN strategies_cache
    /\ "custom" \in DOMAIN strategies_cache
    /\ IsDefaultFallback(last_op.resolved)

\* the name loads: it is in the cache, or it has a well-formed file
Loads(cache, name) == load_strategy(cache, name).error = "none"
\* the name has a file that lacks a required key, and no cache entry
Malformed(cache, name) == load_strategy(cache, name).error = "ValueError"

ReturnsBase(cache, op) ==
    Resolved(op) /\ op.resolved = load_strategy(cache, op.args.strategy).value
ReturnsDerived(op) ==
    Resolved(op) /\ op.resolved.name = op.args.strategy \o "_custom"
ReturnsCustom(op) ==
    /\ Resolved(op) /\ op.resolved.name = "custom"
    /\ op.resolved.entities = or_list(op.args.entities, DefaultEntities)
    /\ op.resolved.relations = or_list(op.args.relations, DefaultRelations)
ReturnsFallback(op) ==
    /\ Resolved(op) /\ op.resolved.name = "fallback"
    /\ op.resolved.entities = or_list(op.args.entities, DefaultEntities)
    /\ op.resolved.relations = or_list(op.args.relations, DefaultRelations)

\* the three named branches of the resolution order
NamedBranches(cache, op) ==
    LET args == op.args
    IN  /\ (NameGiven(args) /\ Loads(cache, args.strategy) /\ ~AnyOverride(args))
              => ReturnsBase(cache, op)
        /\ (NameGiven(args) /\ Loads(cache, args.strategy) /\ AnyOverride(args))
              => ReturnsDerived(op)
        /\ (~NameGiven(args) /\ EntityOrRelationOverride(args))
              => ReturnsCustom(op)

InNamedBranch(cache, args) ==
    \/ NameGiven(args) /\ Loads(cache, args.strategy)
    \/ ~NameGiven(args) /\ EntityOrRelationOverride(args)

\* C9 as stated: every extract call takes the branch of the resolution
\* order its arguments select, and every call outside the three named
\* branches resolves to "fallback" with the defaults.
C9_ResolutionOrder ==
    [][ExtractStep =>
          /\ NamedBranches(strategies_cache, last_op')
          /\ ~InNamedBranch(strategies_cache, last_op'.args)
                => ReturnsFallback(last_op')]_vars

\* C9: every extract call takes the branch of the resolution order its
\* arguments select; outside the three named branches, a name whose file
\* lacks a required key makes the call raise ValueError with nothing
\* resolved and the cache as it was, and every other call resolves to
\* "fallback" with the defaults.
C9_ResolutionOrderOrRaise ==
    [][ExtractStep =>
          /\ NamedBranches(strategies_cache, last_op')
          /\ (NameGiven(last_op'.args)
                /\ Malformed(strategies_cache, last_op'.args.strategy))
                => /\ last_op'.error = "ValueError"
                   /\ last_op'.resolved = NoStrategy
                   /\ strategies_cache' = strategies_cache
          /\ (~InNamedBranch(strategies_cache, last_op'.args)
                /\ ~(NameGiven(last_op'.args)
                       /\ Malformed(strategies_cache, last_op'.args.strategy)))
                => ReturnsFallback(last_op')]_vars

\* a call took the second branch on an entity override alone: "literary"
\* with entities [place] resolved to "literary_custom" with those entities
\* and the relations of the base
C9_Witness ==
    /\ Resolved(last_op)
    /\ last_op.args.strategy = "literary"
    /\ last_op.args.entities = <<"place">>
    /\ last_op.args.relations = None
    /\ ~GranularityOverride(last_op.args)
    /\ last_op.resolved.name = "literary_custom"
    /\ last_op.resolved.entities = <<"place">>
    /\ last_op.resolved.relations = <<"relationship", "conflict">>

\* C10: once an entry exists under a name, no call changes the value
\* stored under that name.
C10_WriteOnce ==
    [][\A name \in DOMAIN strategies_cache :
          /\ name \in DOMAIN strategies_cache'
          /\ strategies_cache'[name] = strategies_cache[name]]_vars

-----------------------------------------------------------------------------
(* Harness: two callers resolving strategies at the same time on one
   strategy manager.  Nothing in the store or in the orchestrator takes a
   lock, so the threads interleave between the steps of
   _determine_strategy: the lookup of the name (load_strategy up to its
   cache write), that cache write, the construction of the strategy to
   return, and the cache write of create_custom_strategy. *)

Callers == {"A", "B"}

\* what each caller passes to extract
ConcurrentArgs ==
    {[NoArgs EXCEPT !.strategy = s, !.entities = e] :
        s \in {NoneStr, "literary", "missing"},
        e \in {None, <<"place">>, <<"event">>}}

NoLoad == [error |-> "not called", value |-> NoStrategy, hit |-> FALSE]

InitConcurrent ==
    /\ callers \in [Callers -> [args : ConcurrentArgs, pc : {"start"},
                                loaded : {NoLoad}, strategy : {NoStrategy},
                                error : {"none"}]]
    /\ UidIdle /\ FormatIdle /\ RepeatIdle /\ ParamsIdle /\ StoreIdle
    /\ PromptIdle /\ SchemaIdle /\ CypherIdle /\ VisualIdle

ConcurrentFrame ==
    UNCHANGED <<uid_in, uid_out, extraction_result, neo4j_data, first_call,
                last_call, n_calls, granularity_in, params_out,
                current_strategy, last_op, n_ops, prompt_in, prompt_out,
                schema_in, schema_out, cypher_in, cypher_out, visual_in, net>>

\* load_strategy up to `self._strategies_cache[strategy_name] = ...`; a
\* caller that names no strategy has nothing to look up
Lookup(c) ==
    LET args == callers[c].args
        out == load_strategy(strategies_cache, args.strategy)
        hit == args.strategy \in DOMAIN strategies_cache
    IN  /\ callers[c].pc = "start"
        /\ callers' =
             [callers EXCEPT
                ![c].loaded =
                    IF TruthyStr(args.strategy)
                    THEN [error |-> out.error, value |-> out.value, hit |-> hit]
                    ELSE NoLoad,
                ![c].pc =
                    IF ~TruthyStr(args.strategy) THEN "resolve"
                    ELSE IF out.error = "ValueError" THEN "done"
                    ELSE IF out.error = "none" /\ ~hit THEN "store"
                    ELSE "resolve",
                ![c].error =
                    IF TruthyStr(args.strategy) /\ out.error = "ValueError"
                    THEN "ValueError" ELSE "none"]
        /\ UNCHANGED strategies_cache
        /\ ConcurrentFrame

\* self._strategies_cache[strategy_name] = strategy_config
StoreLoaded(c) ==
    /\ callers[c].pc = "store"
    /\ strategies_cache' =
         cache_put(strategies_cache, callers[c].args.strategy,
                   callers[c].loaded.value)
    /\ callers' = [callers EXCEPT ![c].pc = "resolve"]
    /\ ConcurrentFrame

\* what load_strategy gave this caller, as a cache
view_of(caller) ==
    IF caller.loaded.error = "none"
    THEN cache_put(EmptyDict, caller.args.strategy, caller.loaded.value)
    ELSE EmptyDict

\* the rest of _determine_strategy up to the cache write of
\* create_custom_strategy; the base strategy is returned without a write
Resolve(c) ==
    LET out == _determine_strategy(view_of(callers[c]), callers[c].args)
        is_base == callers[c].loaded.error = "none" /\ ~any_override(callers[c].args)
    IN  /\ callers[c].pc = "resolve"
        /\ callers' = [callers EXCEPT ![c].strategy = out.value,
                                      ![c].pc = IF is_base THEN "done" ELSE "write"]
        /\ UNCHANGED strategies_cache
        /\ ConcurrentFrame

\* self._strategies_cache[name] = custom_strategy
StoreCustom(c) ==
    /\ callers[c].pc = "write"
    /\ strategies_cache' =
         cache_put(strategies_cache, callers[c].strategy.name, callers[c].strategy)
    /\ callers' = [callers EXCEPT ![c].pc = "done"]
    /\ ConcurrentFrame

NextConcurrent ==
    \/ \E c \in Callers : Lookup(c)
    \/ \E c \in Callers : StoreLoaded(c)
    \/ \E c \in Callers : Resolve(c)
    \/ \E c \in Callers : StoreCustom(c)

SpecConcurrent == InitConcurrent /\ [][NextConcurrent]_vars

\* the cache writes a caller has made by the time it is done: <<key, value>>
WritesOf(caller) ==
    (IF caller.loaded.error = "none" /\ ~caller.loaded.hit
     THEN {<<caller.args.strategy, caller.loaded.value>>} ELSE {})
    \cup
    (IF caller.strategy # NoStrategy
          /\ ~(caller.loaded.error = "none" /\ ~any_override(caller.args))
     THEN {<<caller.strategy.name, caller.strategy>>} ELSE {})

\* C11: when both callers are done, any two writes they made under one
\* cache key wrote equal values, so the cache holds for that key the value
\* either of them wrote, whatever the interleaving was.
C11_IdempotentWrites ==
    (\A c \in Callers : callers[c].pc = "done") =>
        \A c1 \in Callers, c2 \in Callers :
            \A w1 \in WritesOf(callers[c1]), w2 \in WritesOf(callers[c2]) :
                w1[1] = w2[1] =>
                    /\ w1[2] = w2[2]
                    /\ strategies_cache[w1[1]] = w1[2]

-----------------------------------------------------------------------------
(* Claims on the parameters handed to the engine *)

\* C12: in the parameters extract hands to the engine, every key of the
\* caller's keyword arguments has the caller's value; every other key has
\* the value derived from the granularity if one is derived, else the
\* standard value; and there are no other keys.
C12_CallerWins ==
    ReachedEngine(last_op) =>
        LET kwargs == last_op.args.kwargs
            derived == _adjust_extraction_parameters(last_op.resolved.granularity,
                                                     settings_base_url)
            final_params == last_op.final_params
        IN  /\ DOMAIN final_params =
                 DOMAIN kwargs \cup DOMAIN derived \cup DOMAIN standard_params
            /\ \A k \in DOMAIN kwargs : final_params[k] = kwargs[k]
            /\ \A k \in DOMAIN derived \ DOMAIN kwargs :
                 final_params[k] = derived[k]
            /\ \A k \in DOMAIN standard_params \ (DOMAIN kwargs \cup DOMAIN derived) :
                 final_params[k] = standard_params[k]

\* a call overrode a derived parameter (temperature), a parameter that is
\* both derived and standard (fence_output) and a standard one (debug), and
\* left extraction_passes and prompt_validation_level alone
C12_Witness ==
    /\ ReachedEngine(last_op)
    /\ "temperature" \in DOMAIN last_op.args.kwargs
    /\ last_op.args.kwargs.temperature = 50
    /\ last_op.final_params.temperature = 50
    /\ last_op.final_params.fence_output = FALSE
    /\ last_op.final_params.debug = TRUE
    /\ last_op.final_params.extraction_passes = 2
    /\ last_op.final_params.use_schema_constraints = FALSE
    /\ last_op.final_params.prompt_validation_level = "OFF"

-----------------------------------------------------------------------------
(* Claims on load_strategy *)

\* the step is a direct call of load_strategy
LoadStep == n_ops' = n_ops + 1 /\ last_op'.op = "load_strategy"

HasDefinition(name) == name \in DOMAIN StrategyFiles
LacksRequiredKey(name) ==
    \E key \in {"name", "description", "version", "entities", "relations"} :
        key \notin DOMAIN StrategyFiles[name]

\* C13: a load_strategy call whose name is not in the cache raises
\* FileNotFoundError when the name has no definition and ValueError when
\* its definition lacks a required key, leaving the cache as it was in both
\* cases; otherwise it returns the parsed strategy and adds it to the cache
\* under the name, changing no other entry.  A call whose name is in the
\* cache returns the cached entry.
C13_LoadFailures ==
    [][LoadStep =>
        LET name == last_op'.args.strategy
        IN  IF name \in DOMAIN strategies_cache
            THEN /\ last_op'.error = "none"
                 /\ last_op'.resolved = strategies_cache[name]
                 /\ strategies_cache' = strategies_cache
            ELSE IF ~HasDefinition(name)
            THEN /\ last_op'.error = "FileNotFoundError"
                 /\ strategies_cache' = strategies_cache
            ELSE IF LacksRequiredKey(name)
            THEN /\ last_op'.error = "ValueError"
                 /\ strategies_cache' = strategies_cache
            ELSE /\ last_op'.error = "none"
                 /\ last_op'.resolved.name = StrategyFiles[name].name
                 /\ last_op'.resolved.entities = StrategyFiles[name].entities
                 /\ last_op'.resolved.relations = StrategyFiles[name].relations
                 /\ DOMAIN strategies_cache' = DOMAIN strategies_cache \cup {name}
                 /\ strategies_cache'[name] = last_op'.resolved
                 /\ \A other \in DOMAIN strategies_cache :
                        strategies_cache'[other] = strategies_cache[other]]_vars

\* with "literary" loaded and cached, a load of a definition that lacks
\* its version has failed and the cache holds "literary" alone
C13_Witness ==
    /\ last_op.op = "load_strategy"
    /\ last_op.args.strategy = "no_version"
    /\ last_op.error = "ValueError"
    /\ DOMAIN strategies_cache = {"literary"}
    /\ strategies_cache["literary"].version = "2.0"

-----------------------------------------------------------------------------
(* Harness: one call of generate_prompt *)

\* strategies as load_strategy and create_custom_strategy hand them out:
\* neither checks what entities and relations hold, so a definition with
\* `entities:` left empty gives None and a null item gives None in the list
PromptStrategies ==
    {[NoStrategy EXCEPT !.name = "s", !.description = "Some analysis",
                        !.entities = e, !.relations = r, !.prompt_template = t] :
        e \in {<<"character", "emotion">>, <<>>, None, <<"character", NoneStr>>},
        r \in {<<"relationship">>, None},
        t \in {"literary", "base"}}

TemplateFiles == {"literary", "base"}

PromptEnvs ==
    [loader : BOOLEAN, found : SUBSET TemplateFiles,
     failing : SUBSET (TemplateFiles \cup {"builtin"})]

InitPrompt ==
    /\ prompt_in \in [strategy : PromptStrategies, env : PromptEnvs]
    /\ prompt_out = NoPrompt
    /\ UidIdle /\ FormatIdle /\ RepeatIdle /\ ParamsIdle /\ StoreIdle
    /\ ConcurrentIdle /\ SchemaIdle /\ CypherIdle /\ VisualIdle

GeneratePrompt ==
    /\ prompt_out = NoPrompt
    /\ prompt_out' = generate_prompt(prompt_in.strategy, prompt_in.env)
    /\ UNCHANGED <<uid_in, uid_out, extraction_result, neo4j_data, first_call,
                   last_call, n_calls, granularity_in, params_out,
                   strategies_cache, current_strategy, last_op, n_ops, callers,
                   prompt_in, schema_in, schema_out, cypher_in, cypher_out,
                   visual_in, net>>

NextPrompt == GeneratePrompt

SpecPrompt == InitPrompt /\ [][NextPrompt]_vars

\* C14: whatever the strategy, whichever templates are found and whichever
\* renderings fail, generate_prompt returns a string and raises nothing.
C14_AlwaysAString ==
    prompt_out # NoPrompt => prompt_out.error = "none"

\* for strategies whose entities and relations are lists of strings the
\* call does always return, from the fallback text when the rendering fails
WellTypedPromptReturns ==
    (prompt_out # NoPrompt /\ joinable(prompt_in.strategy.entities)
        /\ joinable(prompt_in.strategy.relations)) => prompt_out.error = "none"

-----------------------------------------------------------------------------
(* ExtractionStrategy: the schema store *)

\* What yaml.safe_load gives for a section is either a dict or None (an
\* empty file, or a key with nothing after it): [kind, items], where kind
\* is "dict" or "None" and items holds the items of the dict.  A key that
\* is absent is not in the DOMAIN of the dict that would hold it.
dict_of(items) == [kind |-> "dict", items |-> items]
NoneValue == [kind |-> "None", items |-> EmptyDict]

\* The schemas directory is [entities, relations]: for each file, "absent",
\* "unreadable" (open or the YAML parser raises), or its parsed content.
\* _load_schemas reads the entity file, then the relation file, and on any
\* exception replaces the whole cache by two empty sections.
_load_schemas(schemas_dir) ==
    IF schemas_dir.entities.state = "unreadable"
          \/ schemas_dir.relations.state = "unreadable"
    THEN [entities |-> dict_of(EmptyDict), relations |-> dict_of(EmptyDict)]
    ELSE [k \in {f \in {"entities", "relations"} : schemas_dir[f].state = "parsed"}
            |-> schemas_dir[k].content]

\* The outcome of a lookup is [error, value].
NoDescriptor == [description |-> "", attributes |-> <<>>]
NoRelationDescriptor ==
    [description |-> "", head_types |-> <<>>, tail_types |-> <<>>,
     attributes |-> <<>>]

\* the lookup shared by get_entity_schema and get_relation_schema: the
\* section of the cache, the strategy's classes, the common classes, the
\* default; none is the value of a failed call
schema_lookup(schemas_cache, section, strategy_name, type, default, none) ==
    LET schema == dict_get_default(schemas_cache, section, dict_of(EmptyDict))
    IN  IF schema.kind = "None"
        THEN [error |-> "AttributeError", value |-> none]
        ELSE
        LET strategy_types ==
                dict_get_default(schema.items, strategy_name, dict_of(EmptyDict))
        IN  IF strategy_types.kind = "None"
            THEN [error |-> "TypeError", value |-> none]
            ELSE IF type \in DOMAIN strategy_types.items
            THEN [error |-> "none", value |-> strategy_types.items[type]]
            ELSE
            LET common_types ==
                    dict_get_default(schema.items, "common", dict_of(EmptyDict))
            IN  IF common_types.kind = "None"
                THEN [error |-> "TypeError", value |-> none]
                ELSE IF type \in DOMAIN common_types.items
                THEN [error |-> "none", value |-> common_types.items[type]]
                ELSE [error |-> "none", value |-> default]

get_entity_schema(schemas_cache, strategy_name, entity_type) ==
    schema_lookup(schemas_cache, "entities", strategy_name, entity_type,
                  [description |-> entity_type \o " entity", attributes |-> <<>>],
                  NoDescriptor)

get_relation_schema(schemas_cache, strategy_name, relation_type) ==
    schema_lookup(schemas_cache, "relations", strategy_name, relation_type,
                  [description |-> relation_type \o " relation",
                   head_types |-> <<>>, tail_types |-> <<>>, attributes |-> <<>>],
                  NoRelationDescriptor)

-----------------------------------------------------------------------------
(* Harness: one strategy manager constructed on a schemas directory, then
   one call of get_entity_schema and one of get_relation_schema *)

EntityDescriptor(scope) ==
    [description |-> scope \o " character", attributes |-> <<"role">>]
RelationDescriptor(scope) ==
    [description |-> scope \o " relationship", head_types |-> <<"character">>,
     tail_types |-> <<"character">>, attributes |-> <<>>]

\* the classes a file defines for one scope (a strategy, or "common"):
\* nothing after the key, no class, or the one class
ScopeValues(type, descriptor) ==
    {NoneValue, dict_of(EmptyDict), dict_of([t \in {type} |-> descriptor])}

\* the contents a file may have: empty, or any choice of the scopes
\* "literary" and "common", each absent or present
FileContents(type, literary, common) ==
    {NoneValue}
    \cup {dict_of(EmptyDict)}
    \cup {dict_of([s \in {"literary"} |-> v]) : v \in ScopeValues(type, literary)}
    \cup {dict_of([s \in {"common"} |-> v]) : v \in ScopeValues(type, common)}
    \cup {dict_of([s \in {"literary", "common"} |->
                      IF s = "literary" THEN v ELSE w]) :
            v \in ScopeValues(type, literary), w \in ScopeValues(type, common)}

SchemaFiles(type, literary, common) ==
    {[state |-> "absent", content |-> NoneValue],
     [state |-> "unreadable", content |-> NoneValue]}
    \cup {[state |-> "parsed", content |-> c] :
            c \in FileContents(type, literary, common)}

NoSchemas ==
    [entity |-> [error |-> "not called", value |-> NoDescriptor],
     relation |-> [error |-> "not called", value |-> NoRelationDescriptor]]

InitSchema ==
    /\ \E e \in SchemaFiles("character", EntityDescriptor("literary"),
                           EntityDescriptor("common")),
          r \in SchemaFiles("relationship", RelationDescriptor("literary"),
                           RelationDescriptor("common")),
          strategy_name \in {"literary", "business"},
          known \in BOOLEAN :
            schema_in =
                [schemas_dir |-> [entities |-> e, relations |-> r],
                 schemas_cache |-> _load_schemas([entities |-> e, relations |-> r]),
                 strategy_name |-> strategy_name,
                 entity_type |-> IF known THEN "character" ELSE "place",
                 relation_type |-> IF known THEN "relationship" ELSE "conflict"]
    /\ schema_out = NoSchemas
    /\ UidIdle /\ FormatIdle /\ RepeatIdle /\ ParamsIdle /\ StoreIdle
    /\ ConcurrentIdle /\ PromptIdle /\ CypherIdle /\ VisualIdle

GetSchemas ==
    /\ schema_out = NoSchemas
    /\ schema_out' =
         [entity |-> get_entity_schema(schema_in.schemas_cache,
                                       schema_in.strategy_name,
                                       schema_in.entity_type),
          relation |-> get_relation_schema(schema_in.schemas_cache,
                                           schema_in.strategy_name,
                                           schema_in.relation_type)]
    /\ UNCHANGED <<uid_in, uid_out, extraction_result, neo4j_data, first_call,
                   last_call, n_calls, granularity_in, params_out,
                   strategies_cache, current_strategy, last_op, n_ops, callers,
                   prompt_in, prompt_out, schema_in, cypher_in, cypher_out,
                   visual_in, net>>

NextSchema == GetSchemas

SpecSchema == InitSchema /\ [][NextSchema]_vars

\* the class has a definition under the scope in the section of the cache
Defines(schemas_cache, section, scope, type) ==
    /\ section \in DOMAIN schemas_cache
    /\ schemas_cache[section].kind = "dict"
    /\ scope \in DOMAIN schemas_cache[section].items
    /\ schemas_cache[section].items[scope].kind = "dict"
    /\ type \in DOMAIN schemas_cache[section].items[scope].items

Definition(schemas_cache, section, scope, type) ==
    schemas_cache[section].items[scope].items[type]

\* strategy-specific, else common, else the synthesized descriptor
Descriptor(schemas_cache, section, strategy_name, type, default) ==
    IF Defines(schemas_cache, section, strategy_name, type)
    THEN Definition(schemas_cache, section, strategy_name, type)
    ELSE IF Defines(schemas_cache, section, "common", type)
    THEN Definition(schemas_cache, section, "common", type)
    ELSE default

\* C15: for any content of the schema store, get_entity_schema and
\* get_relation_schema raise nothing and return the strategy-specific
\* definition of the class when there is one, else the common one, else
\* the synthesized minimal descriptor.
C15_AlwaysADescriptor ==
    schema_out # NoSchemas =>
        /\ schema_out.entity.error = "none"
        /\ schema_out.entity.value =
             Descriptor(schema_in.schemas_cache, "entities",
                        schema_in.strategy_name, schema_in.entity_type,
                        [description |-> schema_in.entity_type \o " entity",
                         attributes |-> <<>>])
        /\ schema_out.relation.error = "none"
        /\ schema_out.relation.value =
             Descriptor(schema_in.schemas_cache, "relations",
                        schema_in.strategy_name, schema_in.relation_type,
                        [description |-> schema_in.relation_type \o " relation",
                         head_types |-> <<>>, tail_types |-> <<>>,
                         attributes |-> <<>>])

\* with no None in the cache the lookups never fail and return the right tier
NoneFreeSchemas(schemas_cache) ==
    \A section \in DOMAIN schemas_cache :
        /\ schemas_cache[section].kind = "dict"
        /\ \A scope \in DOMAIN schemas_cache[section].items :
              schemas_cache[section].items[scope].kind = "dict"
DescriptorWhenNoneFree ==
    NoneFreeSchemas(schema_in.schemas_cache) => C15_AlwaysADescriptor

-----------------------------------------------------------------------------
(* Claims on malformed records, on the node list and on the ids of edges *)

\* C16: format_for_neo4j returns a graph and raises nothing, whatever
\* fields of the records are missing or None.
C16_NeverRaises == Called => Returned

\* the entity record at position i has a text, so that the call can return
HasText(rec) == dict_get_default(rec, "extraction_text", <<>>) # None

\* the node list is the image, in input order, of the records whose class
\* is non-empty and not "relationship": one node per such record
NodeListIsImage ==
    LET nodeOf == PositionsFrom(GivenExtractions, 1, IsEntityLike)
    IN  Returned =>
          /\ Len(neo4j_data.nodes) = Len(nodeOf)
          /\ \A i \in 1..Len(nodeOf) :
                neo4j_data.nodes[i] =
                    _create_entity_node(GivenExtractions[nodeOf[i]], GivenDocumentId)

\* C19: the node list is that image, records with an empty class or class
\* "relationship" giving no node, and two records with the same class and
\* the same normalized text give two node entries with the same id.
C19_NodeList ==
    LET nodeOf == PositionsFrom(GivenExtractions, 1, IsEntityLike)
    IN  /\ NodeListIsImage
        /\ Returned =>
              \A i \in 1..Len(nodeOf), j \in 1..Len(nodeOf) :
                 LET ri == GivenExtractions[nodeOf[i]]
                     rj == GivenExtractions[nodeOf[j]]
                 IN  (ri.extraction_class = rj.extraction_class
                        /\ Normalized(ri.extraction_text)
                             = Normalized(rj.extraction_text))
                     => neo4j_data.nodes[i].id = neo4j_data.nodes[j].id

\* C20: when an entity record has the class and, after normalization, the
\* text of the head (resp. tail) of a complete relationship record, the
\* edge's source_id (resp. target_id) is the id of the record's node.
C20_EdgeEndsAreNodeIds ==
    LET nodeOf == PositionsFrom(GivenExtractions, 1, IsEntityLike)
        edgeOf == PositionsFrom(GivenExtractions, 1, CompleteRelationship)
    IN  (Returned /\ Len(neo4j_data.nodes) = Len(nodeOf)
                  /\ Len(neo4j_data.relationships) = Len(edgeOf)) =>
           \A i \in 1..Len(nodeOf), j \in 1..Len(edgeOf) :
              LET rec == GivenExtractions[nodeOf[i]]
                  a == GivenExtractions[edgeOf[j]].attributes_items
                  node == neo4j_data.nodes[i]
                  edge == neo4j_data.relationships[j]
              IN  /\ (a.head_class = rec.extraction_class
                        /\ Normalized(a.head_text) = Normalized(rec.extraction_text))
                     => edge.source_id = node.id
                  /\ (a.tail_class = rec.extraction_class
                        /\ Normalized(a.tail_text) = Normalized(rec.extraction_text))
                     => edge.target_id = node.id

\* the ids of an edge are make_uid of the relationship record's own fields
EdgeIdsFromOwnFields ==
    LET edgeOf == PositionsFrom(GivenExtractions, 1, CompleteRelationship)
    IN  (Returned /\ Len(neo4j_data.relationships) = Len(edgeOf)) =>
           \A j \in 1..Len(edgeOf) :
              LET a == GivenExtractions[edgeOf[j]].attributes_items
                  edge == neo4j_data.relationships[j]
              IN  /\ edge.source_id = make_uid(a.head_class, a.head_text)
                  /\ edge.target_id = make_uid(a.tail_class, a.tail_text)

-----------------------------------------------------------------------------
(* Claims on the lists of a strategy *)

\* C17: every strategy that create_custom_strategy returns, and every
\* strategy that extract resolves, has a non-empty entities list and a
\* non-empty relations list.
C17_NonEmptyLists ==
    (\/ last_op.op = "create_custom_strategy" /\ last_op.error = "none"
     \/ Resolved(last_op)) =>
        /\ last_op.resolved.entities \notin {None, <<>>}
        /\ last_op.resolved.relations \notin {None, <<>>}

-----------------------------------------------------------------------------
(* CypherGenerator *)

\* A statement text is a sequence of pieces: each character that comes from
\* the graph data is a piece of its own, and so is every single quote; the
\* fixed text between them is written in pieces of several characters.  A
\* dict of the graph data is the sequence of its <<key, value>> items in
\* insertion order; a value is a str (a sequence of characters) or an int
\* token.

Quote == "'"
Backslash == "\\"

IsInt(value) == Len(value) = 1 /\ value[1] \in {"<0>", "<5>", "<7>"}

\* value.replace("'", "\\'")
RECURSIVE escape_quotes(_)
escape_quotes(value) ==
    IF value = <<>> THEN <<>>
    ELSE (IF Head(value) = Quote THEN <<Backslash, Quote>> ELSE <<Head(value)>>)
         \o escape_quotes(Tail(value))

\* f"'{value}'"
quoted(value) == <<Quote>> \o value \o <<Quote>>

\* sep.join(parts)
RECURSIVE join_pieces(_, _)
join_pieces(sep, parts) ==
    IF parts = <<>> THEN <<>>
    ELSE IF Len(parts) = 1 THEN parts[1]
    ELSE parts[1] \o <<sep>> \o join_pieces(sep, Tail(parts))

item_value(items, key) ==
    LET at == SelectSeq(items, LAMBDA item : item[1] = key)
    IN  IF at = <<>> THEN <<>> ELSE at[1][2]

\* the props list: f"{prefix}{key}{eq}'{escaped}'" for a str, the value as
\* it prints otherwise
props_of(items, skipped, prefix, eq) ==
    LET kept == SelectSeq(items, LAMBDA item : item[1] \notin skipped)
    IN  [i \in 1..Len(kept) |->
            <<prefix \o kept[i][1] \o eq>>
            \o (IF IsInt(kept[i][2]) THEN kept[i][2]
                ELSE quoted(escape_quotes(kept[i][2])))]

\* ";\n".join(cypher_statements) + ";"
statements_text(cypher_statements) ==
    join_pieces(";\n", cypher_statements) \o <<";">>

_generate_nodes_cypher(nodes) ==
    IF nodes = <<>> THEN <<>>
    ELSE statements_text(
           [i \in 1..Len(nodes) |->
              <<"CREATE (n:">> \o item_value(nodes[i], "label") \o <<" {">>
              \o join_pieces(", ", props_of(nodes[i], {"label"}, "", ": "))
              \o <<"})">>])

_generate_relationships_cypher(relationships) ==
    IF relationships = <<>> THEN <<>>
    ELSE statements_text(
           [i \in 1..Len(relationships) |->
              LET rel == relationships[i]
                  props == props_of(rel, {"source_id", "target_id", "type"}, "", ": ")
              IN  <<"MATCH (a {id: ">> \o quoted(item_value(rel, "source_id"))
                  \o <<"}), (b {id: ">> \o quoted(item_value(rel, "target_id"))
                  \o <<"})\nCREATE (a)-[r:">> \o item_value(rel, "type") \o <<" ">>
                  \o (IF props = <<>> THEN <<>>
                      ELSE <<"{">> \o join_pieces(", ", props) \o <<"}">>)
                  \o <<"]->(b)">>])

_generate_nodes_merge(nodes) ==
    IF nodes = <<>> THEN <<>>
    ELSE statements_text(
           LET merged == SelectSeq(nodes, LAMBDA node : item_value(node, "id") # <<>>)
           IN  [i \in 1..Len(merged) |->
                  LET set_props == props_of(merged[i], {"label", "id"}, "n.", " = ")
                  IN  <<"MERGE (n:">> \o item_value(merged[i], "label")
                      \o <<" {id: ">> \o quoted(item_value(merged[i], "id"))
                      \o <<"})">>
                      \o (IF set_props = <<>> THEN <<>>
                          ELSE <<"\nSET ">> \o join_pieces(", ", set_props))])

_generate_relationships_merge(relationships) ==
    IF relationships = <<>> THEN <<>>
    ELSE statements_text(
           LET merged ==
                 SelectSeq(relationships,
                           LAMBDA rel : /\ item_value(rel, "source_id") # <<>>
                                        /\ item_value(rel, "target_id") # <<>>)
           IN  [i \in 1..Len(merged) |->
                  LET rel == merged[i]
                      set_props ==
                          props_of(rel, {"source_id", "target_id", "type"}, "r.", " = ")
                  IN  <<"MATCH (a {id: ">> \o quoted(item_value(rel, "source_id"))
                      \o <<"}), (b {id: ">> \o quoted(item_value(rel, "target_id"))
                      \o <<"})\nMERGE (a)-[r:">> \o item_value(rel, "type")
                      \o <<"]->(b)">>
                      \o (IF set_props = <<>> THEN <<>>
                          ELSE <<"\nSET ">> \o join_pieces(", ", set_props))])

-----------------------------------------------------------------------------
(* Harness: the four generators on a graph of one node and one edge *)

MaxCypherLen == 2   \* longest string of the graph data given to the generators

CypherAlphabet == {"a", Quote, Backslash}
CypherStrings == UNION {[1..n -> CypherAlphabet] : n \in 0..MaxCypherLen}

\* a node as _create_entity_node builds it and an edge as
\* _create_relationship builds it, keys in the order of insertion
CypherNode(id, text) ==
    <<<<"id", id>>, <<"label", <<"P", "L", "A", "C", "E">>>>, <<"text", text>>,
      <<"start_pos", <<"<7>">>>>>>
CypherEdge(source_id, target_id, trigger_text) ==
    <<<<"source_id", source_id>>, <<"target_id", target_id>>,
      <<"type", <<"L", "O", "V", "E", "S">>>>, <<"trigger_text", trigger_text>>>>

NoStatements ==
    [called |-> FALSE, nodes_cypher |-> <<>>, relationships_cypher |-> <<>>,
     nodes_merge |-> <<>>, relationships_merge |-> <<>>]

InitCypher ==
    /\ cypher_in \in [id : CypherStrings \ {<<>>}, text : CypherStrings]
    /\ cypher_out = NoStatements
    /\ UidIdle /\ FormatIdle /\ RepeatIdle /\ ParamsIdle /\ StoreIdle
    /\ ConcurrentIdle /\ PromptIdle /\ SchemaIdle /\ VisualIdle

\* generate_cypher_import and generate_merge_statements on the graph whose
\* node has the id and the text, and whose edge runs from that id to the
\* id "a" with the text as its trigger_text
GenerateStatements ==
    LET nodes == <<CypherNode(cypher_in.id, cypher_in.text)>>
        relationships == <<CypherEdge(cypher_in.id, <<"a">>, cypher_in.text)>>
    IN  /\ ~cypher_out.called
        /\ cypher_out' =
             [called |-> TRUE,
              nodes_cypher |-> _generate_nodes_cypher(nodes),
              relationships_cypher |-> _generate_relationships_cypher(relationships),
              nodes_merge |-> _generate_nodes_merge(nodes),
              relationships_merge |-> _generate_relationships_merge(relationships)]
        /\ UNCHANGED <<uid_in, uid_out, extraction_result, neo4j_data, first_call,
                       last_call, n_calls, granularity_in, params_out,
                       strategies_cache, current_strategy, last_op, n_ops, callers,
                       prompt_in, prompt_out, schema_in, schema_out, cypher_in,
                       visual_in, net>>

NextCypher == GenerateStatements

SpecCypher == InitCypher /\ [][NextCypher]_vars

\* The single-quoted literals of a statement text as Cypher reads them: a
\* quote opens a literal, inside it a backslash takes the next character
\* literally, and the first quote that is not escaped closes it.  A literal
\* still open at the end of the text is given with the mark "<open>".
RECURSIVE ScanLiterals(_, _, _, _, _)
ScanLiterals(text, pos, inside, current, found) ==
    IF pos > Len(text)
    THEN IF inside THEN Append(found, Append(current, "<open>")) ELSE found
    ELSE IF ~inside
    THEN ScanLiterals(text, pos + 1, text[pos] = Quote, <<>>, found)
    ELSE IF text[pos] = Backslash /\ pos < Len(text)
    THEN ScanLiterals(text, pos + 2, TRUE, Append(current, text[pos + 1]), found)
    ELSE IF text[pos] = Quote
    THEN ScanLiterals(text, pos + 1, FALSE, <<>>, Append(found, current))
    ELSE ScanLiterals(text, pos + 1, TRUE, Append(current, text[pos]), found)

Literals(text) == ScanLiterals(text, 1, FALSE, <<>>, <<>>)

\* C18: in each of the four statement texts, the single-quoted literals
\* are, in order, exactly the strings of the graph data that were placed
\* in them: property values, and the ids of the MERGE and MATCH patterns.
C18_QuotesEscaped ==
    cypher_out.called =>
        /\ Literals(cypher_out.nodes_cypher) = <<cypher_in.id, cypher_in.text>>
        /\ Literals(cypher_out.nodes_merge) = <<cypher_in.id, cypher_in.text>>
        /\ Literals(cypher_out.relationships_cypher)
             = <<cypher_in.id, <<"a">>, cypher_in.text>>
        /\ Literals(cypher_out.relationships_merge)
             = <<cypher_in.id, <<"a">>, cypher_in.text>>

\* strings without a backslash are read back whole where they are written
\* as property values: every property of the CREATE statement of a node
PropertyValuesEscaped ==
    (/\ cypher_out.called
     /\ \A i \in 1..Len(cypher_in.id) : cypher_in.id[i] # Backslash
     /\ \A j \in 1..Len(cypher_in.text) : cypher_in.text[j] # Backslash) =>
        Literals(cypher_out.nodes_cypher) = <<cypher_in.id, cypher_in.text>>

-----------------------------------------------------------------------------
(* The type of an edge, and the keys a relationship record needs *)

\* the edges of a returned graph are those of the complete relationship
\* records, in input order
EdgeRecords == PositionsFrom(GivenExtractions, 1, CompleteRelationship)

\* C21: every emitted edge has a type equal to the relation_type of its
\* record uppercased, and equal to RELATED_TO when the attributes of the
\* record have no relation_type.
C21_EdgeType ==
    Returned =>
        /\ Len(neo4j_data.relationships) = Len(EdgeRecords)
        /\ \A i \in 1..Len(EdgeRecords) :
              LET a == GivenExtractions[EdgeRecords[i]].attributes_items
                  e == neo4j_data.relationships[i]
              IN  /\ "type" \in DOMAIN e
                  /\ "relation_type" \in DOMAIN a =>
                        /\ Len(e.type) = Len(a.relation_type)
                        /\ \A j \in 1..Len(e.type) :
                              /\ ~IsIn(LowerAlpha, e.type[j])
                              /\ lower_char(e.type[j]) = lower_char(a.relation_type[j])
                  /\ "relation_type" \notin DOMAIN a => e.type = RELATED_TO

\* a call that returned two edges: one of a record with relation_type
\* "loves", one of a record without relation_type
C21_Witness ==
    /\ Returned
    /\ Len(EdgeRecords) = 2
    /\ "relation_type" \in AttributeKeys(GivenExtractions[EdgeRecords[1]])
    /\ GivenExtractions[EdgeRecords[1]].attributes_items.relation_type = T_loves
    /\ neo4j_data.relationships[1].type = <<"L", "O", "V", "E", "S">>
    /\ "relation_type" \notin AttributeKeys(GivenExtractions[EdgeRecords[2]])
    /\ neo4j_data.relationships[2].type = RELATED_TO

\* the call returns what it returns for the same input without record i
DroppedAt(i) ==
    neo4j_data = format_for_neo4j([extraction_result EXCEPT
                                      !.extractions = remove_at(GivenExtractions, i)])

\* record i accounts for one edge of the returned graph and for no node
YieldsEdgeAt(i) ==
    LET rest == format_for_neo4j([extraction_result EXCEPT
                                     !.extractions = remove_at(GivenExtractions, i)])
    IN  /\ neo4j_data.nodes = rest.nodes
        /\ Len(neo4j_data.relationships) = Len(rest.relationships) + 1

\* a relationship record whose attributes hold the four link keys, filled
\* in, and no relation_type
LacksRelationTypeOnly(rec) ==
    /\ IsRelationshipRecord(rec)
    /\ \A k \in LinkKeys :
          k \in AttributeKeys(rec) /\ rec.attributes_items[k] \notin {None, <<>>}
    /\ "relation_type" \notin AttributeKeys(rec)

\* C22 as stated: a relationship record whose attributes lack relation_type
\* is dropped like one lacking head_text, head_class, tail_text or
\* tail_class; the record yields no edge when any of the five is absent.
C22_FiveKeysRequired ==
    Called =>
        \A i \in 1..Len(GivenExtractions) :
            (/\ IsRelationshipRecord(GivenExtractions[i])
             /\ \E k \in LinkKeys \cup {"relation_type"} :
                   k \notin AttributeKeys(GivenExtractions[i]))
                => DroppedAt(i)

\* C22, amended: a relationship record lacking one of the four link keys
\* yields no edge, and one lacking relation_type only yields an edge: four
\* keys are required and relation_type is not.
C22_FourKeysRequired ==
    Returned =>
        \A i \in 1..Len(GivenExtractions) :
            /\ LacksLinkKey(GivenExtractions[i]) => DroppedAt(i)
            /\ LacksRelationTypeOnly(GivenExtractions[i]) => YieldsEdgeAt(i)

\* a call on a record lacking relation_type only and a record lacking a
\* link key, which returned the one edge of the first
C22_Witness ==
    /\ Returned
    /\ Len(GivenExtractions) = 2
    /\ LacksRelationTypeOnly(GivenExtractions[1])
    /\ LacksLinkKey(GivenExtractions[2])
    /\ "relation_type" \in AttributeKeys(GivenExtractions[2])
    /\ Len(neo4j_data.relationships) = 1
    /\ neo4j_data.relationships[1].type = RELATED_TO

-----------------------------------------------------------------------------
(* What the attributes of a record add to its node *)

\* the nodes of a returned graph are those of the entity-like records, in
\* input order
NodeRecords == PositionsFrom(GivenExtractions, 1, IsEntityLike)

\* the keys every node is built with before its attributes are looked at
CoreKeys ==
    {"id", "label", "text", "normalized_text", "document_id", "start_pos",
     "end_pos", "extraction_index", "alignment_status"}

\* the attributes of a record that are not null, {} when they are no dict
GivenAttributes(rec) ==
    IF dict_get(rec, "attributes") = PyDict
    THEN [k \in {j \in DOMAIN rec.attributes_items : rec.attributes_items[j] # None}
             |-> rec.attributes_items[k]]
    ELSE EmptyDict

\* the node holds, beside what the record without attributes gives, the
\* listed attributes that are given and not null, and nothing else
ContributesOnly(node, rec, keys) ==
    LET given == GivenAttributes(rec)
        plain == _create_entity_node(without(rec, {"attributes"}), GivenDocumentId)
    IN  /\ DOMAIN node = DOMAIN plain \cup (keys \cap DOMAIN given)
        /\ \A k \in keys \cap DOMAIN given : node[k] = given[k]
        /\ \A k \in DOMAIN plain \ keys : node[k] = plain[k]

\* C23: a character record contributes only role, alias and title to its
\* node, an emotion record only feeling and category, and a record of any
\* other class every attribute key whose value is not null, verbatim.
C23_ClassMerge ==
    Returned =>
        /\ Len(neo4j_data.nodes) = Len(NodeRecords)
        /\ \A i \in 1..Len(NodeRecords) :
              LET rec == GivenExtractions[NodeRecords[i]]
                  node == neo4j_data.nodes[i]
              IN  IF rec.extraction_class = character
                  THEN ContributesOnly(node, rec, {"role", "alias", "title"})
                  ELSE IF rec.extraction_class = emotion
                  THEN ContributesOnly(node, rec, {"feeling", "category"})
                  ELSE ContributesOnly(node, rec, DOMAIN GivenAttributes(rec))

\* a call on a character record and a place record, each with an attribute
\* named id: the character's node holds its role and not the attribute id,
\* the place's node holds the attribute id
C23_Witness ==
    /\ Returned
    /\ Len(GivenExtractions) = 2
    /\ Len(neo4j_data.nodes) = 2
    /\ GivenExtractions[1].extraction_class = character
    /\ GivenExtractions[2].extraction_class = T_place
    /\ \A i \in 1..2 : "id" \in DOMAIN GivenAttributes(GivenExtractions[i])
    /\ "role" \in DOMAIN GivenAttributes(GivenExtractions[1])
    /\ neo4j_data.nodes[1].role = T_lead
    /\ neo4j_data.nodes[1].id # T_d1
    /\ "title" \notin DOMAIN neo4j_data.nodes[1]
    /\ neo4j_data.nodes[2].id = T_d1

\* C27: every node emitted for an entity record has id equal to
\* make_uid(record class, record text) and label equal to the record class
\* uppercased, whatever attribute keys the record carries.
C27_CoreFieldsKept ==
    Returned =>
        /\ Len(neo4j_data.nodes) = Len(NodeRecords)
        /\ \A i \in 1..Len(NodeRecords) :
              LET rec == GivenExtractions[NodeRecords[i]]
                  node == neo4j_data.nodes[i]
              IN  /\ node.id = make_uid(rec.extraction_class, rec.extraction_text)
                  /\ Len(node.label) = Len(rec.extraction_class)
                  /\ \A j \in 1..Len(node.label) :
                        /\ ~IsIn(LowerAlpha, node.label[j])
                        /\ lower_char(node.label[j]) = lower_char(rec.extraction_class[j])

\* the same for the records of the classes character and emotion, and for
\* the records whose attributes name no key a node is built with
CoreFieldsKeptUnlessNamed ==
    Returned =>
        \A i \in 1..Len(NodeRecords) :
            LET rec == GivenExtractions[NodeRecords[i]]
                node == neo4j_data.nodes[i]
            IN  (\/ rec.extraction_class \in {character, emotion}
                 \/ DOMAIN GivenAttributes(rec) \cap CoreKeys = {})
                    => /\ node.id = make_uid(rec.extraction_class, rec.extraction_text)
                       /\ node.label = str_upper(rec.extraction_class)

-----------------------------------------------------------------------------
(* Granularity values outside the documented levels *)

\* C24: an unknown value is never an error in the parameter derivation: an
\* unknown breadth gives the standard baseline (2, 1500, 0.1) to the later
\* steps, an unknown depth leaves the temperature as set by breadth, and an
\* unknown context_scope leaves the window as set by breadth.
C24_UnknownLevels ==
    LET g == granularity_in.granularity
        row == IF g.breadth \in Breadths THEN BreadthRow(g.breadth) ELSE <<2, 1500, 10>>
    IN  ParamsGiven =>
           /\ {"extraction_passes", "max_char_buffer", "temperature"}
                 \subseteq DOMAIN params_out
           /\ params_out.extraction_passes = row[1]
           /\ g.depth \notin Depths => params_out.temperature = row[3]
           /\ g.depth \in Depths => params_out.temperature = DepthRow(g.depth, row[3])
           /\ g.context_scope \notin ContextScopes => params_out.max_char_buffer = row[2]
           /\ g.context_scope \in ContextScopes =>
                 params_out.max_char_buffer = ScopeRow(g.context_scope, row[2])

\* the parameters have been derived for a granularity whose breadth, depth
\* and context_scope are all outside the documented levels
C24_Witness ==
    /\ ParamsGiven
    /\ granularity_in.granularity.breadth \notin Breadths
    /\ granularity_in.granularity.depth \notin Depths
    /\ granularity_in.granularity.context_scope \notin ContextScopes
    /\ ParamsAre(2, 1500, 10)

-----------------------------------------------------------------------------
(* A named strategy that cannot be loaded *)

\* the name has no definition in the strategies directory
NoDefinition(name) == name \notin DOMAIN StrategyFiles
\* the name has a definition that lacks a required key
MalformedDefinition(name) ==
    /\ name \in DOMAIN StrategyFiles
    /\ \E key \in {"name", "description", "version", "entities", "relations"} :
          key \notin DOMAIN StrategyFiles[name]

\* the call raised the parse error; nothing was resolved, and the cache and
\* the current strategy are as they were
SurfacesParseError ==
    /\ last_op'.error = "ValueError"
    /\ last_op'.resolved = NoStrategy
    /\ strategies_cache' = strategies_cache
    /\ current_strategy' = current_strategy

\* the call resolved to the strategy "fallback", synthesized from the
\* arguments and cached
RecoversByFallback ==
    /\ ReturnsFallback(last_op')
    /\ strategies_cache'["fallback"] = last_op'.resolved

\* C25 as stated: when extract resolves a named strategy, a missing
\* definition is recovered by synthesizing the fallback strategy and no
\* error reaches the caller; a malformed definition surfaces a parse error,
\* and no fallback strategy is synthesized or cached.
C25_MissingRecovered ==
    [][(ExtractStep /\ NameGiven(last_op'.args)) =>
          /\ NoDefinition(last_op'.args.strategy) => RecoversByFallback
          /\ MalformedDefinition(last_op'.args.strategy) => SurfacesParseError]_vars

\* C25, amended: the same for a name that has no entry in the strategy
\* cache; a name found in the cache is served from it, whatever its
\* definition.
C25_MissingRecoveredUncached ==
    [][(/\ ExtractStep /\ NameGiven(last_op'.args)
        /\ last_op'.args.strategy \notin DOMAIN strategies_cache) =>
          /\ NoDefinition(last_op'.args.strategy) => RecoversByFallback
          /\ MalformedDefinition(last_op'.args.strategy) => SurfacesParseError]_vars

\* after a call that cached a fallback with entities [place] and saved it,
\* a call naming the malformed "broken" raised: the cached fallback and the
\* current strategy are those of the first call
C25_Witness ==
    /\ n_ops = 2
    /\ last_op.op = "extract"
    /\ last_op.args.strategy = "broken"
    /\ last_op.error = "ValueError"
    /\ DOMAIN strategies_cache = {"fallback"}
    /\ strategies_cache["fallback"].entities = <<"place">>
    /\ current_strategy = strategies_cache["fallback"]

-----------------------------------------------------------------------------
(* The order in which generate_prompt tries its renderers *)

\* A template that cannot be compiled makes get_template raise, as a
\* missing file does: it counts as not found.  A template in env.failing
\* is found and compiled, and raises when rendered.

\* the tiers of the claim for a strategy: its named template, the base
\* template, the built-in template
Tiers(strategy) == <<strategy.prompt_template, "base", "builtin">>

\* a tier is found: the built-in template always, a file when the
\* environment has a loader and the directory holds it
TierFound(tier, env) == tier = "builtin" \/ (env.loader /\ tier \in env.found)

\* a tier succeeds: it is found and its rendering does not fail
TierSucceeds(tier, env) == TierFound(tier, env) /\ tier \notin env.failing

-----------------------------------------------------------------------------
(* What a derived strategy keeps of its base *)

\* the step is an extract call that names a strategy that loads and passes
\* an override: it derives "{name}_custom" from the loaded base
DerivingStep ==
    /\ ExtractStep
    /\ NameGiven(last_op'.args)
    /\ Loads(strategies_cache, last_op'.args.strategy)
    /\ AnyOverride(last_op'.args)

BaseOfStep == load_strategy(strategies_cache, last_op'.args.strategy).value

\* C28: a strategy derived from a base as "{name}_custom" keeps every base
\* field that was not overridden: its description, version,
\* prompt_template, extraction_rules, examples, post_processing and
\* special_settings equal those of the base.
C28_DerivedKeepsBase ==
    [][DerivingStep =>
          LET base == BaseOfStep
              derived == last_op'.resolved
          IN  /\ ReturnsDerived(last_op')
              /\ derived.description = base.description
              /\ derived.version = base.version
              /\ derived.prompt_template = base.prompt_template
              /\ derived.extraction_rules = base.extraction_rules
              /\ derived.examples = base.examples
              /\ derived.post_processing = base.post_processing
              /\ derived.special_settings = base.special_settings]_vars

\* what the derived strategy does keep: the description, and the entities,
\* the relations and each granularity field that the call did not override
DerivedKeepsDescriptionAndLists ==
    [][DerivingStep =>
          LET base == BaseOfStep
              derived == last_op'.resolved
              args == last_op'.args
          IN  /\ ReturnsDerived(last_op')
              /\ derived.description = base.description
              /\ ~TruthyList(args.entities) => derived.entities = base.entities
              /\ ~TruthyList(args.relations) => derived.relations = base.relations
              /\ ~TruthyStr(args.depth) =>
                    derived.granularity.depth = base.granularity.depth]_vars

-----------------------------------------------------------------------------
(* get_current_strategy *)

\* get_current_strategy(): the saved strategy, None (NoStrategy) before any
\* was saved
get_current_strategy == current_strategy

\* C29: get_current_strategy returns the strategy resolved by the most
\* recent extract call that completed successfully, and none before the
\* first: a successful call saves the strategy it resolved; a call that
\* fails, in resolution, in prompt generation or in the engine, leaves the
\* saved strategy as it was even when it has written to the cache; no other
\* operation touches it.
C29_CurrentStrategy ==
    /\ [](n_ops = 0 => get_current_strategy = NoStrategy)
    /\ [][/\ (ExtractStep /\ last_op'.error = "none")
                => current_strategy' = last_op'.resolved
          /\ (ExtractStep /\ last_op'.error # "none")
                => current_strategy' = current_strategy
          /\ ~ExtractStep => current_strategy' = current_strategy]_vars

\* a first call succeeded on the default fallback; a second call resolved
\* and cached "custom" and then failed in the engine: the current strategy
\* is still that of the first
C29_Witness ==
    /\ n_ops = 2
    /\ last_op.op = "extract"
    /\ last_op.error = "EngineError"
    /\ last_op.resolved.name = "custom"
    /\ strategies_cache["custom"] = last_op.resolved
    /\ get_current_strategy # last_op.resolved
    /\ IsDefaultFallback(get_current_strategy)

\* a call that named a cached strategy whose entities are None failed in
\* prompt generation, and no strategy is saved
PromptFailureReached ==
    /\ last_op.op = "extract"
    /\ last_op.error = "TypeError"
    /\ last_op.resolved.entities = None
    /\ get_current_strategy = NoStrategy

-----------------------------------------------------------------------------
(* VisualNodes: the preview network *)

\* The pyvis Network is [pc, error, nodes, edges]: what visualize_neo4j_data
\* does next, the exception raised ("none" when none), and the node and
\* edge lists of the network in the order of insertion.

\* Network.get_nodes(): the ids of the nodes
get_nodes(network) == {network.nodes[i].id : i \in 1..Len(network.nodes)}

\* Network.add_node: a node whose id the network already holds is ignored
add_node(network, n_id, label) ==
    IF n_id \in get_nodes(network) THEN network
    ELSE [network EXCEPT !.nodes = Append(@, [id |-> n_id, label |-> label])]

\* Network.add_edge on a directed network: asserts that both ends are
\* nodes of the network, then appends the edge
add_edge(network, source, to, label) ==
    IF source \notin get_nodes(network) \/ to \notin get_nodes(network)
    THEN [network EXCEPT !.error = "AssertionError"]
    ELSE [network EXCEPT
             !.edges = Append(@, [from |-> source, to |-> to, label |-> label])]

RECURSIVE _add_nodes_to_network(_, _)
_add_nodes_to_network(network, nodes) ==
    IF nodes = <<>> THEN network
    ELSE LET node == Head(nodes)
             node_id == dict_get_default(node, "id", "")
             text == dict_get_default(node, "text", "")
         IN  _add_nodes_to_network(add_node(network, node_id, text), Tail(nodes))

\* the loop over the relationships without the check of the two ends
RECURSIVE add_unchecked_relationships(_, _)
add_unchecked_relationships(network, relationships) ==
    IF relationships = <<>> \/ network.error # "none" THEN network
    ELSE LET rel == Head(relationships)
             source_id == dict_get_default(rel, "source_id", "")
             target_id == dict_get_default(rel, "target_id", "")
             rel_type == dict_get_default(rel, "type", "DEFAULT")
         IN  add_unchecked_relationships(
                 add_edge(network, source_id, target_id, rel_type),
                 Tail(relationships))

\* the loop over the relationships; existing_nodes is taken once, before it
RECURSIVE add_checked_relationships(_, _, _)
add_checked_relationships(network, existing_nodes, relationships) ==
    IF relationships = <<>> \/ network.error # "none" THEN network
    ELSE LET rel == Head(relationships)
             source_id == dict_get_default(rel, "source_id", "")
             target_id == dict_get_default(rel, "target_id", "")
             rel_type == dict_get_default(rel, "type", "DEFAULT")
         IN  add_checked_relationships(
                 IF source_id \notin existing_nodes \/ target_id \notin existing_nodes
                 THEN network
                 ELSE add_edge(network, source_id, target_id, rel_type),
                 existing_nodes, Tail(relationships))

_add_relationships_to_network(network, relationships) ==
    add_checked_relationships(network, get_nodes(network), relationships)

-----------------------------------------------------------------------------
(* Harness: visualize_neo4j_data on one graph, up to the saving of the file *)

MaxVisual == 2   \* longest node list and longest relationship list of the graph

\* nodes with the ids "a" and "b", and a node without id
VisualNodeDicts ==
    {[id |-> i, label |-> "CHARACTER", text |-> t] :
        i \in {"a", "b"}, t \in {"Romeo"}}
    \cup {[label |-> "PLACE", text |-> "Verona"]}

\* relationships between the ids "a", "b" and "c", and one without
\* source_id and type
VisualRelationshipDicts ==
    {[source_id |-> s, target_id |-> t, type |-> "FEELS"] :
        s \in {"a", "b", "c"}, t \in {"a", "b", "c"}}
    \cup {[target_id |-> "a"]}

EmptyNetwork == [pc |-> "nodes", error |-> "none", nodes |-> <<>>, edges |-> <<>>]

InitVisual ==
    /\ visual_in \in [nodes : SeqsUpTo(VisualNodeDicts, MaxVisual),
                      relationships : SeqsUpTo(VisualRelationshipDicts, MaxVisual)]
    /\ net = EmptyNetwork
    /\ UidIdle /\ FormatIdle /\ RepeatIdle /\ ParamsIdle /\ StoreIdle
    /\ ConcurrentIdle /\ PromptIdle /\ SchemaIdle /\ CypherIdle

VisualFrame ==
    UNCHANGED <<uid_in, uid_out, extraction_result, neo4j_data, first_call,
                last_call, n_calls, granularity_in, params_out,
                strategies_cache, current_strategy, last_op, n_ops, callers,
                prompt_in, prompt_out, schema_in, schema_out, cypher_in,
                cypher_out, visual_in>>

AddNodes ==
    /\ net.pc = "nodes"
    /\ net' = [_add_nodes_to_network(net, visual_in.nodes) EXCEPT
                  !.pc = "relationships"]
    /\ VisualFrame

AddRelationships ==
    /\ net.pc = "relationships"
    /\ net' = [_add_relationships_to_network(net, visual_in.relationships) EXCEPT
                  !.pc = "done"]
    /\ VisualFrame

NextVisual == AddNodes \/ AddRelationships

SpecVisual == InitVisual /\ [][NextVisual]_vars

\* the ids of the nodes of the graph given
GivenNodeIds ==
    {dict_get_default(visual_in.nodes[i], "id", "") : i \in 1..Len(visual_in.nodes)}

\* a relationship of the graph given is dangling: one of its ends is the
\* id of no node of the graph
Dangling(rel) ==
    \/ dict_get_default(rel, "source_id", "") \notin GivenNodeIds
    \/ dict_get_default(rel, "target_id", "") \notin GivenNodeIds

\* the positions of the relationships that are not dangling
LinkedAt ==
    SelectSeq([i \in 1..Len(visual_in.relationships) |-> i],
              LAMBDA i : ~Dangling(visual_in.relationships[i]))

\* the network holds no error and no edge with an end outside its nodes;
\* once built, its nodes are those of the graph and its edges those of the
\* relationships that are not dangling, in order
EdgesOfLinked ==
    /\ net.error = "none"
    /\ \A i \in 1..Len(net.edges) :
          net.edges[i].from \in get_nodes(net) /\ net.edges[i].to \in get_nodes(net)
    /\ net.pc = "done" =>
          /\ get_nodes(net) = GivenNodeIds
          /\ Len(net.edges) = Len(LinkedAt)
          /\ \A i \in 1..Len(LinkedAt) :
                LET rel == visual_in.relationships[LinkedAt[i]]
                IN  /\ net.edges[i].from = dict_get_default(rel, "source_id", "")
                    /\ net.edges[i].to = dict_get_default(rel, "target_id", "")
                    /\ net.edges[i].label = dict_get_default(rel, "type", "DEFAULT")

\* C30: an edge is added to the preview network only when its source_id
\* and its target_id are both ids of nodes already added from the same
\* graph; a dangling relationship is skipped without error, and skipping it
\* changes neither the nodes nor the other edges: the edges are those of
\* the relationships that are not dangling, in order, and the step that
\* adds them leaves the nodes as they were.
C30_DanglingSkipped ==
    /\ []EdgesOfLinked
    /\ [][net.pc = "relationships" => net'.nodes = net.nodes]_vars

\* a graph of the node "a" and two relationships, the first from "a" to the
\* missing "c", the second from "a" to "a": the network holds the node and
\* the second edge alone
C30_Witness ==
    /\ net.pc = "done"
    /\ net.error = "none"
    /\ GivenNodeIds = {"a"}
    /\ Len(visual_in.relationships) = 2
    /\ visual_in.relationships[1] =
          [source_id |-> "a", target_id |-> "c", type |-> "FEELS"]
    /\ ~Dangling(visual_in.relationships[2])
    /\ Len(net.nodes) = 1
    /\ net.edges = <<[from |-> "a", to |-> "a", label |-> "FEELS"]>>

====
